---- MODULE Spec2Model ----
(***************************************************************************)
(* Verification model of the CSV sanitizer (client/src/csv_preprocessor.py)*)
(* of the Neo4j load pipelines (client/src/client.py and                  *)
(* client/src/primekg_client.py) and of the data preparation scripts      *)
(* (process_entity.py, semmed/merge_dups.py, sample_data.py,              *)
(* kg_bioportal/download_kg_bioportal.py).                                *)
(*                                                                         *)
(* A string is a sequence of characters; a character is a one-element      *)
(* token.  Printable ASCII characters stand for themselves, the others are *)
(* named: DQ is the double quote, BS the backslash, TAB is \t, NBSP is     *)
(* U+00A0, SOH is \x01, EACUTE is U+00E9, SUP2 is U+00B2 (superscript two),*)
(* AR3 is U+0663 (Arabic-Indic digit three).                               *)
(***************************************************************************)
EXTENDS Integers, Sequences, FiniteSets, TLC

VARIABLES
    op,         \* sanitizer: which function was called ("none" before the call)
    arg_field,  \* clean_field: the field passed
    arg_row,    \* process_row: the row passed, [iterable, fields]
    arg_n,      \* process_row: expected_columns
    ret_field,  \* clean_field: the value returned
    ret_row,    \* process_row: the list returned
    \* preprocess_csv
    file,             \* the records of the input file, in order
    chunk_size,       \* the chunk_size argument
    cpc,              \* where preprocess_csv is
    expected_columns, \* len(first_row)
    pos,              \* records the reader has delivered
    chunk,            \* the chunk list
    processed,        \* the processed counter
    temp_rows,        \* rows written through writer, in order
    temp_exists,      \* whether temp_path exists
    replaced,         \* whether os.replace(temp_path, input_path) ran
    write_faults,     \* writes that have failed so far
    error,            \* the exception preprocess_csv raised ("none" if none)
    \* main of client.py and of primekg_client.py
    program,       \* "client" (client.py) or "primekg" (primekg_client.py)
    args,          \* the flags given on the command line
    argv,          \* what else the command line holds: "flags", "help", "unknown"
    init_fails,    \* the step of Neo4jConnector.__init__ that raises ("none" if none)
    mpc,           \* where main is
    stage_idx,     \* index in Stages of the stage main is at
    in_stage,      \* whether that stage's method is running
    stage_status,  \* per stage: "not_run", "running", "done" or "failed"
    attempts,      \* per stage: times its method was called
    driver_open,   \* whether the driver GraphDatabase.driver returned is open
    caught,        \* the exception main's except clause logged ("none" if none)
    exit_status,   \* the status the process ended with (-1 while it runs)
    \* the graph store and the loaders of Neo4jConnector
    dangling,        \* whether entity.gz names a sentence sentences.csv lacks
    constrained,     \* whether the uniqueness constraints exist
    nodes,           \* per label and key, the number of nodes
    rels,            \* per type and key, the number of relationships
    store_failures,  \* queries the store has answered with an error so far
    batch_faults,    \* batches apoc.periodic.iterate has reported failed so far
    load_calls,      \* loader methods called so far
    early_counts,    \* counts taken so far while their load was still running
    logged,          \* the counts the loaders logged, in order
    last,            \* the last loader call and its outcome
    \* process_sql_to_csv
    line,         \* the line of the SQL file, [insert, rest]
    qpc,          \* where process_sql_to_csv is
    values_part,  \* the line from its first "(" on
    scan,         \* the scanner: index i, stack, start, matches
    csv_rows,     \* the rows written through csv_writer, in order
    \* merge_duplicates
    merge_input,   \* the rows of the input file, the header row first
    gpc,           \* where merge_duplicates is
    merge_pos,     \* rows read, then items written
    header,        \* the header row
    unique_rows,   \* the keys in insertion order, each with its frequency
    merge_output,  \* the rows written to the output file, in order
    \* sample_files
    source_files,  \* the files of source_dir when sample_files is called
    same_dir,      \* whether dest_dir is the directory source_dir
    n_lines,       \* the n_lines argument
    n_workers,     \* the processes of the pool
    kpc,           \* where sample_files is
    fs,            \* the files of the directories "source" and "dest"
    process_args,  \* the tasks no process has taken yet, in order
    workers,       \* per process: whether it runs process_file, on what, line index
    results,       \* the names the main process has received, in order
    writers,       \* per file name, the processes that opened it for writing
    \* KGBioportalDownloader
    stats,            \* self.stats
    dpc,              \* where download_all_ontologies is ("ready" between calls)
    all_ontologies,   \* the ontologies of the call
    downloaded_data,  \* the ontologies whose data the call holds
    attempted,        \* the ontologies download_ontology_data was called on, in order
    calls             \* completed calls of download_all_ontologies

sanVars == <<op, arg_field, arg_row, arg_n, ret_field, ret_row>>

csvVars == <<file, chunk_size, cpc, expected_columns, pos, chunk, processed,
             temp_rows, temp_exists, replaced, write_faults, error>>

mainVars == <<program, args, argv, init_fails, mpc, stage_idx, in_stage,
              stage_status, attempts, driver_open, caught, exit_status>>

loadVars == <<dangling, constrained, nodes, rels, store_failures, batch_faults,
              load_calls, early_counts, logged, last>>

sqlVars == <<line, qpc, values_part, scan, csv_rows>>

mergeVars == <<merge_input, gpc, merge_pos, header, unique_rows, merge_output>>

sampleVars == <<source_files, same_dir, n_lines, n_workers, kpc, fs,
                process_args, workers, results, writers>>

downloadVars == <<stats, dpc, all_ontologies, downloaded_data, attempted, calls>>

\* the variables of the data preparation scripts
toolVars == <<sqlVars, mergeVars, sampleVars, downloadVars>>

notSql == <<sanVars, csvVars, mainVars, loadVars, mergeVars, sampleVars,
            downloadVars>>

notMerge == <<sanVars, csvVars, mainVars, loadVars, sqlVars, sampleVars,
              downloadVars>>

notSample == <<sanVars, csvVars, mainVars, loadVars, sqlVars, mergeVars,
               downloadVars>>

notDownload == <<sanVars, csvVars, mainVars, loadVars, sqlVars, mergeVars,
                 sampleVars>>

----------------------------------------------------------------------------
(* Characters *)

DQ == "DQ"
BS == "BS"

AsciiDigits == {"0", "1", "2", "3", "4", "5", "6", "7", "8", "9"}

\* str.isspace() characters that str.strip() removes
WhitespaceChars == {" ", "TAB", "NBSP"}

\* characters matched by invalid_chars, [^\x20-\x7E]
InvalidChars == {"TAB", "NBSP", "SOH", "EACUTE", "SUP2", "AR3"}

\* characters for which str.isdigit() is true
IsDigitChars == AsciiDigits \cup {"SUP2", "AR3"}

\* Unicode decimal digits float() accepts besides 0-9, with their ASCII digit
UnicodeDecimal == [c \in {"AR3"} |-> "3"]

DigitVal ==
    ("0" :> 0) @@ ("1" :> 1) @@ ("2" :> 2) @@ ("3" :> 3) @@ ("4" :> 4) @@
    ("5" :> 5) @@ ("6" :> 6) @@ ("7" :> 7) @@ ("8" :> 8) @@ ("9" :> 9)

DigitChar == <<"0", "1", "2", "3", "4", "5", "6", "7", "8", "9">>

Range(s) == {s[i] : i \in 1..Len(s)}

Zeros(k) == [i \in 1..k |-> 0]

MapSeq(f, s) == [i \in 1..Len(s) |-> f[s[i]]]

\* the decimal digits of a digit-value sequence as characters
DigitsToChars(ds) == [i \in 1..Len(ds) |-> DigitChar[ds[i] + 1]]

----------------------------------------------------------------------------
(* str methods *)

RECURSIVE lstrip(_)
lstrip(s) ==
    IF s # <<>> /\ Head(s) \in WhitespaceChars THEN lstrip(Tail(s)) ELSE s

RECURSIVE rstrip(_)
rstrip(s) ==
    IF s # <<>> /\ s[Len(s)] \in WhitespaceChars
    THEN rstrip(SubSeq(s, 1, Len(s) - 1))
    ELSE s

\* strip() that forgets the right side
strip_left_only(s) == lstrip(s)

\* str.strip()
strip(s) == rstrip(lstrip(s))

\* str.replace(old, new) for a one-character old
RECURSIVE replace(_, _, _)
replace(s, old, new) ==
    IF s = <<>> THEN <<>>
    ELSE (IF Head(s) = old THEN new ELSE <<Head(s)>>) \o replace(Tail(s), old, new)

\* str.isdigit(): non-empty and every character a digit
isdigit(s) == s # <<>> /\ \A i \in 1..Len(s) : s[i] \in IsDigitChars

\* self.invalid_chars.sub('', value)
invalid_chars_sub(s) == SelectSeq(s, LAMBDA c : c \notin InvalidChars)

----------------------------------------------------------------------------
(* float(value), int(...) and str(...) of line 64-65.  A number is a       *)
(* sequence of decimal digit values, most significant first.               *)

\* significand width of a Python float (IEEE 754 binary64)
MantissaBits == 53
\* decimal digits a binary64 always round-trips (sys.float_info.dig)
FloatDig == 15
\* repr(float) switches to exponent notation when the decimal point position
\* is <= ReprMinDecpt or > ReprMaxDecpt (float_repr_style 'short', format 'r')
ReprMinDecpt == -4
ReprMaxDecpt == 16
\* a float holds no integer of more decimal digits than this (1.8e308)
FloatMaxDigits == 309

\* the characters of value with Unicode decimal digits turned into ASCII ones
AsciiForm(value) ==
    [i \in 1..Len(value) |->
        IF value[i] \in DOMAIN UnicodeDecimal THEN UnicodeDecimal[value[i]]
        ELSE value[i]]

IsNegative(value) == value # <<>> /\ value[1] = "-"

\* value without its sign
Unsigned(value) == IF IsNegative(value) THEN Tail(value) ELSE value

\* float(value) raises ValueError unless value is [-]digits[.digits] with at
\* least one digit (the only characters that reach it are digits, '.', '-')
FloatSyntaxOK(value) ==
    LET body == Unsigned(AsciiForm(value)) IN
        /\ \A i \in 1..Len(body) : body[i] \in AsciiDigits \cup {"."}
        /\ Cardinality({i \in 1..Len(body) : body[i] = "."}) <= 1
        /\ \E i \in 1..Len(body) : body[i] \in AsciiDigits

\* the digits before and after the decimal point
IntPart(value) ==
    LET body == Unsigned(AsciiForm(value))
        dots == {i \in 1..Len(body) : body[i] = "."}
        cut  == IF dots = {} THEN Len(body) + 1 ELSE CHOOSE i \in dots : TRUE
    IN  MapSeq(DigitVal, SubSeq(body, 1, cut - 1))

FracPart(value) ==
    LET body == Unsigned(AsciiForm(value))
        dots == {i \in 1..Len(body) : body[i] = "."}
        cut  == IF dots = {} THEN Len(body) + 1 ELSE CHOOSE i \in dots : TRUE
    IN  MapSeq(DigitVal, SubSeq(body, cut + 1, Len(body)))

IsZero(ds) == \A i \in 1..Len(ds) : ds[i] = 0

RECURSIVE StripLeadingZeros(_)
StripLeadingZeros(ds) ==
    IF ds # <<>> /\ Head(ds) = 0 THEN StripLeadingZeros(Tail(ds)) ELSE ds

RECURSIVE StripTrailingZeros(_)
StripTrailingZeros(ds) ==
    IF ds # <<>> /\ ds[Len(ds)] = 0
    THEN StripTrailingZeros(SubSeq(ds, 1, Len(ds) - 1))
    ELSE ds

\* The binary form is computed ten bits at a time (divisions and
\* multiplications by 1024) to keep the recursion shallow.

\* ds \div d, digit by digit from the most significant (d <= 1024)
RECURSIVE DivFrom(_, _, _, _)
DivFrom(ds, i, carry, d) ==
    IF i > Len(ds) THEN <<>>
    ELSE LET cur == carry * 10 + ds[i]
         IN  <<cur \div d>> \o DivFrom(ds, i + 1, cur % d, d)

\* ds % d
RECURSIVE RemFrom(_, _, _, _)
RemFrom(ds, i, carry, d) ==
    IF i > Len(ds) THEN carry
    ELSE RemFrom(ds, i + 1, (carry * 10 + ds[i]) % d, d)

\* the decimal digits of a natural number below 10000
NatDigits(n) ==
    StripLeadingZeros(<<n \div 1000, (n \div 100) % 10, (n \div 10) % 10, n % 10>>)

\* m * ds + carry, digit by digit from the least significant (m <= 1024)
RECURSIVE MulFrom(_, _, _, _)
MulFrom(ds, i, carry, m) ==
    IF i = 0 THEN NatDigits(carry)
    ELSE LET v == m * ds[i] + carry
         IN  MulFrom(ds, i - 1, v \div 10, m) \o <<v % 10>>

\* the ten low bits of r, least significant first
ChunkBits(r) ==
    <<r % 2, (r \div 2) % 2, (r \div 4) % 2, (r \div 8) % 2, (r \div 16) % 2,
      (r \div 32) % 2, (r \div 64) % 2, (r \div 128) % 2, (r \div 256) % 2,
      (r \div 512) % 2>>

\* the value of at most ten bits, least significant first
RECURSIVE ChunkVal(_)
ChunkVal(bits) == IF bits = <<>> THEN 0 ELSE Head(bits) + 2 * ChunkVal(Tail(bits))

RECURSIVE DecToChunks(_)
DecToChunks(ds) ==
    IF IsZero(ds) THEN <<>>
    ELSE ChunkBits(RemFrom(ds, 1, 0, 1024))
             \o DecToChunks(StripLeadingZeros(DivFrom(ds, 1, 0, 1024)))

\* the binary digits of ds, least significant first, the last one a 1
DecToBits(ds) == StripTrailingZeros(DecToChunks(ds))

\* the decimal digits of bits (least significant first)
RECURSIVE BitsToDec(_)
BitsToDec(bits) ==
    IF bits = <<>> THEN <<>>
    ELSE LET n  == IF Len(bits) < 10 THEN Len(bits) ELSE 10
             hi == BitsToDec(SubSeq(bits, n + 1, Len(bits)))
         IN  MulFrom(hi, Len(hi), ChunkVal(SubSeq(bits, 1, n)), 1024)

\* bits + 1
IncBits(bits) ==
    LET zeros == {i \in 1..Len(bits) : bits[i] = 0} IN
    IF zeros = {} THEN [i \in 1..(Len(bits) + 1) |-> IF i <= Len(bits) THEN 0 ELSE 1]
    ELSE LET j == CHOOSE i \in zeros : \A k \in zeros : i <= k
         IN  [i \in 1..Len(bits) |-> IF i < j THEN 0 ELSE IF i = j THEN 1 ELSE bits[i]]

\* float(): round to nearest, ties to even, at MantissaBits significant bits
RoundToFloat(bits) ==
    IF Len(bits) <= MantissaBits THEN bits
    ELSE LET k      == Len(bits) - MantissaBits
             mant   == SubSeq(bits, k + 1, Len(bits))
             guard  == bits[k]
             sticky == \E i \in 1..(k - 1) : bits[i] = 1
             up     == guard = 1 /\ (sticky \/ mant[1] = 1)
         IN  Zeros(k) \o (IF up THEN IncBits(mant) ELSE mant)

\* int(float(value)) raises OverflowError when float(value) is inf
FloatOverflows(value) ==
    Len(StripLeadingZeros(IntPart(value))) >= FloatMaxDigits

\* str(int(float(value))) for value = [-]digits
StrIntFloat(value) ==
    LET ds  == BitsToDec(RoundToFloat(DecToBits(IntPart(value))))
    IN  IF ds = <<>> THEN <<"0">>
        ELSE (IF IsNegative(value) THEN <<"-">> ELSE <<>>) \o DigitsToChars(ds)

\* a natural number below 1000 in decimal, at least two digits (the exponent)
ExponentDigits(e) ==
    IF e < 100 THEN <<e \div 10, e % 10>>
    ELSE <<e \div 100, (e \div 10) % 10, e % 10>>

\* str(float(value)) = repr: the shortest digits that round-trip.  Up to
\* FloatDig significant digits these are the digits of value themselves;
\* beyond that the nearest binary64 decides them, which this model does not
\* compute: no input of the model has that many.
StrFloat(value) ==
    LET ip    == IntPart(value)
        all   == ip \o FracPart(value)
        lead  == StripLeadingZeros(all)
        sig   == StripTrailingZeros(lead)
        n     == Len(sig)
        decpt == Len(ip) - (Len(all) - Len(lead))
        sign  == IF IsNegative(value) THEN <<"-">> ELSE <<>>
        sc    == DigitsToChars(sig)
        e     == decpt - 1
    IN  IF n > FloatDig THEN CHOOSE r \in {} : TRUE
        ELSE IF n = 0 THEN sign \o <<"0", ".", "0">>
        ELSE IF decpt <= ReprMinDecpt \/ decpt > ReprMaxDecpt
        THEN sign \o <<sc[1]>>
                  \o (IF n > 1 THEN <<".">> \o Tail(sc) ELSE <<>>)
                  \o <<"e">> \o (IF e < 0 THEN <<"-">> ELSE <<"+">>)
                  \o DigitsToChars(ExponentDigits(IF e < 0 THEN -e ELSE e))
        ELSE IF decpt <= 0
        THEN sign \o <<"0", ".">> \o DigitsToChars(Zeros(-decpt)) \o sc
        ELSE IF decpt < n
        THEN sign \o SubSeq(sc, 1, decpt) \o <<".">> \o SubSeq(sc, decpt + 1, n)
        ELSE sign \o sc \o DigitsToChars(Zeros(decpt - n)) \o <<".", "0">>

----------------------------------------------------------------------------
(* CSVPreprocessor.clean_field and CSVPreprocessor.process_row *)

\* None
NoneField == <<"NONE">>

\* the test of line 62: value.replace('.', '').replace('-', '').isdigit()
looks_numeric(value) == isdigit(replace(replace(value, ".", <<>>), "-", <<>>))

\* lines 63-65 raise: ValueError from float(), OverflowError from int()
numeric_raises(value) ==
    \/ ~FloatSyntaxOK(value)
    \/ ("." \notin Range(value) /\ FloatOverflows(value))

\* lines 63-65 when nothing is raised
numeric_form(value) ==
    IF "." \in Range(value) THEN StrFloat(value) ELSE StrIntFloat(value)

\* the two replace calls in the wrong order
escape_quotes_first(value) ==
    replace(replace(value, DQ, <<BS, DQ>>), BS, <<BS, BS>>)

\* lines 68-70: backslashes first, then double quotes
escape(value) == replace(replace(value, BS, <<BS, BS>>), DQ, <<BS, DQ>>)

\* line 79: what the except branch returns
error_fallback(field) == field

clean_field(field) ==
    IF field = NoneField THEN <<>>
    ELSE LET value == strip(field) IN
        IF value = <<>> THEN <<>>
        ELSE IF looks_numeric(value)
        THEN IF numeric_raises(value) THEN error_fallback(field)
             ELSE numeric_form(value)
        ELSE invalid_chars_sub(escape(value))

\* padding without the truncation of lines 92-93
pad_only(cleaned, n_columns) ==
    IF Len(cleaned) < n_columns
    THEN cleaned \o [i \in 1..(n_columns - Len(cleaned)) |-> <<>>]
    ELSE cleaned

\* lines 90-93 (n_columns is the expected_columns argument)
pad_or_truncate(cleaned, n_columns) ==
    IF Len(cleaned) < n_columns
    THEN cleaned \o [i \in 1..(n_columns - Len(cleaned)) |-> <<>>]
    ELSE IF Len(cleaned) > n_columns
    THEN SubSeq(cleaned, 1, n_columns)
    ELSE cleaned

\* line 100: [''] * expected_columns
empty_row(n_columns) == [i \in 1..n_columns |-> <<>>]

\* A row is [iterable, fields]; iterating a row that is not iterable (None)
\* raises TypeError at line 87, which line 97 catches.
process_row(row, n_columns) ==
    IF ~row.iterable THEN empty_row(n_columns)
    ELSE pad_or_truncate([i \in 1..Len(row.fields) |-> clean_field(row.fields[i])],
                         n_columns)

----------------------------------------------------------------------------
(* Inputs of the sanitizer *)

MaxFieldLen == 3
MaxRowLen == 3
MaxCols == 5

FieldAlphabet == {" ", "TAB", "SOH", "0", "4", ".", "-", "a", "DQ", "BS", "SUP2"}

\* longer fields: the scenario's, 2^53 + 1, small decimals, padded numbers
SampleFields ==
    { <<" ", " ", "4", "2", " ">>,
      <<"f", "o", "o", "DQ", "b", "a", "r">>,
      <<"3", ".", "0">>,
      <<"9", "0", "0", "7", "1", "9", "9", "2", "5", "4", "7", "4", "0", "9", "9", "3">>,
      <<"0", ".", "0", "0", "0", "1">>,
      <<"0", ".", "0", "0", "0", "0", "1">>,
      <<"-", "0", "0", "7">>,
      <<" ", "1", "-", "2", " ">>,
      <<"a", "BS", "DQ", "b">>,
      <<"AR3">> }

FieldInputs ==
    UNION {[1..k -> FieldAlphabet] : k \in 0..MaxFieldLen}
        \cup SampleFields \cup {NoneField}

RowFieldSamples == {<<>>, <<" ">>, <<"a", "DQ">>, <<"4", "-", "4">>, <<" ", "0", "4">>}

ScenarioRow ==
    [iterable |-> TRUE,
     fields   |-> << <<" ", " ", "4", "2", " ">>, <<>>,
                     <<"f", "o", "o", "DQ", "b", "a", "r">>, <<"3", ".", "0">> >>]

ScenarioExpected ==
    << <<"4", "2">>, <<>>, <<"f", "o", "o", "BS", "DQ", "b", "a", "r">>,
       <<"3", ".", "0">>, <<>> >>

\* None passed as the row
NoneRow == [iterable |-> FALSE, fields |-> <<>>]

RowInputs ==
    {[iterable |-> TRUE, fields |-> f] :
        f \in UNION {[1..k -> RowFieldSamples] : k \in 0..MaxRowLen}}
        \cup {ScenarioRow, NoneRow}

----------------------------------------------------------------------------
(* The sanitizer's functions, each called once on an input *)

SanIdle ==
    /\ op = "none"
    /\ arg_field = <<>>
    /\ arg_row = [iterable |-> TRUE, fields |-> <<>>]
    /\ arg_n = 0
    /\ ret_field = <<>>
    /\ ret_row = <<>>

CallCleanField ==
    /\ op = "none"
    /\ \E f \in FieldInputs :
        /\ arg_field' = f
        /\ ret_field' = clean_field(f)
    /\ op' = "clean_field"
    /\ UNCHANGED <<arg_row, arg_n, ret_row>>
    /\ UNCHANGED <<csvVars, mainVars, loadVars, toolVars>>

CallProcessRow ==
    /\ op = "none"
    /\ \E r \in RowInputs, n \in 0..MaxCols :
        /\ arg_row' = r
        /\ arg_n' = n
        /\ ret_row' = process_row(r, n)
    /\ op' = "process_row"
    /\ UNCHANGED <<arg_field, ret_field>>
    /\ UNCHANGED <<csvVars, mainVars, loadVars, toolVars>>

----------------------------------------------------------------------------
(* CSVPreprocessor.preprocess_csv.  A record of the input file is what      *)
(* csv.reader makes of it: [fault, fields].  fault: reading the record      *)
(* raises (csv.Error such as a field over the field size limit, or          *)
(* UnicodeDecodeError from the utf-8 decoder); fields: the parsed row, <<>>  *)
(* for a blank line.                                                        *)

MaxFileLen == 3
MaxChunkSize == 2
MaxWriteFaults == 1

RecordSamples ==
    { [fault |-> FALSE, fields |-> << <<"a">> >>],
      [fault |-> FALSE, fields |-> << <<"a", "DQ">>, <<"4", "-", "4">> >>],
      [fault |-> FALSE, fields |-> << <<" ">>, <<"TAB">> >>],
      [fault |-> FALSE, fields |-> << <<>>, <<>> >>],
      [fault |-> FALSE, fields |-> <<>>],
      [fault |-> TRUE,  fields |-> <<>>] }

FileInputs == UNION {[1..k -> RecordSamples] : k \in 0..MaxFileLen}

\* any(row): some field is a non-empty string
any(fields) == \E i \in 1..Len(fields) : fields[i] # <<>>

\* emptiness judged on the cleaned fields
is_skipped_cleaned(fields) ==
    ~any([i \in 1..Len(fields) |-> clean_field(fields[i])])

\* line 149: the row is skipped
is_skipped(fields) == ~any(fields)

\* the row as process_row receives it
AsRow(fields) == [iterable |-> TRUE, fields |-> fields]

CsvIdle ==
    /\ file = <<>>
    /\ chunk_size = 0
    /\ cpc = "idle"
    /\ expected_columns = 0
    /\ pos = 0
    /\ chunk = <<>>
    /\ processed = 0
    /\ temp_rows = <<>>
    /\ temp_exists = FALSE
    /\ replaced = FALSE
    /\ write_faults = 0
    /\ error = "none"

CsvInit ==
    /\ file \in FileInputs
    /\ chunk_size \in 1..MaxChunkSize
    /\ cpc = "start"
    /\ expected_columns = 0
    /\ pos = 0
    /\ chunk = <<>>
    /\ processed = 0
    /\ temp_rows = <<>>
    /\ temp_exists = FALSE
    /\ replaced = FALSE
    /\ write_faults = 0
    /\ error = "none"

\* lines 182-191: log, remove temp_path if it exists (the removal may itself
\* fail, which is only logged), re-raise
Raise(e) ==
    /\ cpc' = "raised"
    /\ error' = e
    /\ \E removed \in BOOLEAN : temp_exists' = (temp_exists /\ ~removed)

\* lines 109-116: the disk space check fails
CsvNoSpace ==
    /\ cpc = "start"
    /\ Raise("RuntimeError: Insufficient disk space")
    /\ UNCHANGED <<file, chunk_size, expected_columns, pos, chunk, processed,
                   temp_rows, replaced, write_faults>>
    /\ UNCHANGED <<sanVars, mainVars, loadVars, toolVars>>

\* lines 121-122: next(csv.reader(f)) raises on an empty file or a first
\* record that cannot be read
CsvFirstRowFails ==
    /\ cpc = "start"
    /\ IF Len(file) = 0 THEN TRUE ELSE file[1].fault
    /\ Raise(IF Len(file) = 0 THEN "StopIteration" ELSE "ReadError")
    /\ UNCHANGED <<file, chunk_size, expected_columns, pos, chunk, processed,
                   temp_rows, replaced, write_faults>>
    /\ UNCHANGED <<sanVars, mainVars, loadVars, toolVars>>

\* lines 118-143: count the columns of the first row, open both files
CsvOpen ==
    /\ cpc = "start"
    /\ Len(file) > 0
    /\ ~file[1].fault
    /\ expected_columns' = Len(file[1].fields)
    /\ temp_exists' = TRUE
    /\ cpc' = "loop"
    /\ UNCHANGED <<file, chunk_size, pos, chunk, processed, temp_rows,
                   replaced, write_faults, error>>
    /\ UNCHANGED <<sanVars, mainVars, loadVars, toolVars>>

\* line 146: the reader raises on the next record; outside the inner try
CsvReadFails ==
    /\ cpc = "loop"
    /\ pos < Len(file)
    /\ file[pos + 1].fault
    /\ Raise("ReadError")
    /\ UNCHANGED <<file, chunk_size, expected_columns, pos, chunk, processed,
                   temp_rows, replaced, write_faults>>
    /\ UNCHANGED <<sanVars, mainVars, loadVars, toolVars>>

\* lines 149-150: an empty row is skipped
CsvSkipRow ==
    /\ cpc = "loop"
    /\ pos < Len(file)
    /\ ~file[pos + 1].fault
    /\ is_skipped(file[pos + 1].fields)
    /\ pos' = pos + 1
    /\ UNCHANGED <<file, chunk_size, cpc, expected_columns, chunk, processed,
                   temp_rows, temp_exists, replaced, write_faults, error>>
    /\ UNCHANGED <<sanVars, mainVars, loadVars, toolVars>>

\* lines 152-160: the row is processed and buffered; a full chunk is written
\* and cleared
CsvProcessRow ==
    /\ cpc = "loop"
    /\ pos < Len(file)
    /\ ~file[pos + 1].fault
    /\ ~is_skipped(file[pos + 1].fields)
    /\ pos' = pos + 1
    /\ processed' = processed + 1
    /\ LET full == Append(chunk, process_row(AsRow(file[pos + 1].fields),
                                             expected_columns))
       IN  IF Len(full) >= chunk_size
           THEN temp_rows' = temp_rows \o full /\ chunk' = <<>>
           ELSE temp_rows' = temp_rows /\ chunk' = full
    /\ UNCHANGED <<file, chunk_size, cpc, expected_columns, temp_exists,
                   replaced, write_faults, error>>
    /\ UNCHANGED <<sanVars, mainVars, loadVars, toolVars>>

\* lines 152-165: as CsvProcessRow, but writer.writerows(chunk) raises after
\* writing some of the rows; the inner except logs and continues with the
\* chunk as it is
CsvProcessRowWriteFails ==
    /\ cpc = "loop"
    /\ pos < Len(file)
    /\ ~file[pos + 1].fault
    /\ ~is_skipped(file[pos + 1].fields)
    /\ write_faults < MaxWriteFaults
    /\ LET full == Append(chunk, process_row(AsRow(file[pos + 1].fields),
                                             expected_columns))
       IN  /\ Len(full) >= chunk_size
           /\ chunk' = full
           /\ \E k \in 0..Len(full) : temp_rows' = temp_rows \o SubSeq(full, 1, k)
    /\ pos' = pos + 1
    /\ processed' = processed + 1
    /\ write_faults' = write_faults + 1
    /\ UNCHANGED <<file, chunk_size, cpc, expected_columns, temp_exists,
                   replaced, error>>
    /\ UNCHANGED <<sanVars, mainVars, loadVars, toolVars>>

\* lines 168-170: the rows left in the chunk are written
CsvFinalWrite ==
    /\ cpc = "loop"
    /\ pos = Len(file)
    /\ temp_rows' = temp_rows \o chunk
    /\ cpc' = "verify"
    /\ UNCHANGED <<file, chunk_size, expected_columns, pos, chunk, processed,
                   temp_exists, replaced, write_faults, error>>
    /\ UNCHANGED <<sanVars, mainVars, loadVars, toolVars>>

\* lines 168-170: the last write raises; outside the inner try
CsvFinalWriteFails ==
    /\ cpc = "loop"
    /\ pos = Len(file)
    /\ chunk # <<>>
    /\ write_faults < MaxWriteFaults
    /\ \E k \in 0..Len(chunk) : temp_rows' = temp_rows \o SubSeq(chunk, 1, k)
    /\ write_faults' = write_faults + 1
    /\ Raise("WriteError")
    /\ UNCHANGED <<file, chunk_size, expected_columns, pos, chunk, processed,
                   replaced>>
    /\ UNCHANGED <<sanVars, mainVars, loadVars, toolVars>>

\* lines 173-174: nothing was processed
CsvNoValidRows ==
    /\ cpc = "verify"
    /\ processed = 0
    /\ Raise("RuntimeError: No valid rows processed")
    /\ UNCHANGED <<file, chunk_size, expected_columns, pos, chunk, processed,
                   temp_rows, replaced, write_faults>>
    /\ UNCHANGED <<sanVars, mainVars, loadVars, toolVars>>

\* lines 177-180: the input file is replaced by the processed one
CsvReplace ==
    /\ cpc = "verify"
    /\ processed # 0
    /\ replaced' = TRUE
    /\ temp_exists' = FALSE
    /\ cpc' = "returned"
    /\ UNCHANGED <<file, chunk_size, expected_columns, pos, chunk, processed,
                   temp_rows, write_faults, error>>
    /\ UNCHANGED <<sanVars, mainVars, loadVars, toolVars>>

CsvNext ==
    \/ CsvNoSpace
    \/ CsvFirstRowFails
    \/ CsvOpen
    \/ CsvReadFails
    \/ CsvSkipRow
    \/ CsvProcessRow
    \/ CsvProcessRowWriteFails
    \/ CsvFinalWrite
    \/ CsvFinalWriteFails
    \/ CsvNoValidRows
    \/ CsvReplace

----------------------------------------------------------------------------
(* The graph store behind session.run, and the loader methods of            *)
(* Neo4jConnector in client.py and primekg_client.py.  Every data file has  *)
(* FileRows rows.  Row r of citations.csv is the citation with pmid r; row  *)
(* r of sentences.csv is sentence r, of citation r; row r of entity.gz is   *)
(* an entity of sentence r (of a sentence that is in no row of              *)
(* sentences.csv, for the last row, when dangling); row r of                *)
(* predication.csv is predication r, of sentence r and citation r.  Row r   *)
(* of unique_nodes.csv is the node with id r, a gene/protein when r is odd  *)
(* and a disease when r is even; row r of kg.csv relates node r to the      *)
(* node after it.  A query either raises or is applied; a query of          *)
(* apoc.periodic.iterate is applied batch by batch, a failed batch is       *)
(* rolled back and counted in the failedBatches column of the result, and   *)
(* the batches after it are still run.  session.run returns when the store  *)
(* has accepted the query, before its result is consumed: the batches are   *)
(* committed one after the other while the method goes on, and the result   *)
(* is consumed by the next session.run of the session or when the with      *)
(* block closes it.  get_node_count and get_relationship_count read the     *)
(* store in a session of their own, and see the batches committed so far.   *)

\* rows of each data file
FileRows == 2
\* rows of one batch (the batchSize parameter)
BatchRows == 1
\* batches a store fails for a reason of its own (deadlock, timeout)
MaxBatchFailures == 1
\* queries a store answers with an error
MaxStoreFailures == 1
\* loader methods called in one behaviour
MaxLoads == 2
\* counts taken while the load before them is still running
MaxEarlyCounts == 1

Programs == {"client", "primekg"}

NodeLabels == {"Citation", "Sentence", "Entity", "Predication",
               "GeneProtein", "Disease", "Node"}

RelTypes == {"HAS_ENTITY", "HAS_PREDICATION", "BELONGS_TO_SAME_CITATION",
             "INTERACTS_WITH", "RELATES_TO"}

Rows == 1..FileRows

\* the keys nodes are matched on: FileRows + 1 is the dangling reference
StoreKeys == 1..(FileRows + 1)

Batches == 1..((FileRows + BatchRows - 1) \div BatchRows)

BatchOf(r) == ((r - 1) \div BatchRows) + 1

FileLoaders == {"load_citations", "load_sentences", "load_entities",
                "load_predications", "load_nodes"}

\* the label of the CREATE clause that row r of the loader's file reaches
RowLabel(loader, r) ==
    CASE loader = "load_citations"    -> "Citation"
      [] loader = "load_sentences"    -> "Sentence"
      [] loader = "load_entities"     -> "Entity"
      [] loader = "load_predications" -> "Predication"
      [] loader = "load_nodes"        -> IF r % 2 = 1 THEN "GeneProtein"
                                                      ELSE "Disease"

\* the key of the node row r creates: pmid, sentence_id, predication_id, id
RowKey(loader, r) ==
    IF loader = "load_entities" /\ dangling /\ r = FileRows
    THEN FileRows + 1
    ELSE r

\* the label whose nodes the loader counts after its query
CountedLabel(loader) ==
    CASE loader = "load_citations"    -> "Citation"
      [] loader = "load_sentences"    -> "Sentence"
      [] loader = "load_entities"     -> "Entity"
      [] loader = "load_predications" -> "Predication"
      [] loader = "load_nodes"        -> "Node"

\* the labels whose key property a constraint of create_constraints makes
\* unique.  client.py: Predication.predication_id (Entity.ENTITY_ID is a
\* property load_entities never sets); primekg_client.py: GeneProtein.id
\* (no node has the label Node)
UniqueLabels == IF program = "client" THEN {"Predication"} ELSE {"GeneProtein"}

RECURSIVE SumCounts(_, _)
\* the sum of f over the set S
SumCounts(f, S) ==
    IF S = {} THEN 0
    ELSE LET x == CHOOSE y \in S : TRUE IN f[x] + SumCounts(f, S \ {x})

\* MATCH (n:label) RETURN count(n)
get_node_count(ns, label) == SumCounts(ns[label], StoreKeys)

\* MATCH ()-[r:type]->() RETURN count(r); every type when type is "None"
get_relationship_count(rs, type) ==
    IF type = "None"
    THEN SumCounts([t \in RelTypes |-> SumCounts(rs[t], StoreKeys)], RelTypes)
    ELSE SumCounts(rs[type], StoreKeys)

\* the queries a loader method submits, in order
Queries(loader) ==
    CASE loader = "create_constraints" ->
             IF program = "client"
             THEN << [q |-> "constraints", kind |-> "None"],
                     [q |-> "indexes", kind |-> "None"],
                     [q |-> "show", kind |-> "None"] >>
             ELSE << [q |-> "constraints", kind |-> "None"],
                     [q |-> "indexes", kind |-> "None"] >>
      [] loader = "load_predications" ->
             << [q |-> "create", kind |-> loader],
                [q |-> "count", kind |-> CountedLabel(loader)],
                [q |-> "update", kind |-> "None"] >>
      [] loader \in FileLoaders \ {"load_predications"} ->
             << [q |-> "create", kind |-> loader],
                [q |-> "count", kind |-> CountedLabel(loader)] >>
      [] loader = "create_relationships" ->
             IF program = "client"
             THEN << [q |-> "relate", kind |-> "HAS_ENTITY"],
                     [q |-> "relcount", kind |-> "HAS_ENTITY"],
                     [q |-> "relate", kind |-> "HAS_PREDICATION"],
                     [q |-> "relcount", kind |-> "HAS_PREDICATION"],
                     [q |-> "relate", kind |-> "BELONGS_TO_SAME_CITATION"],
                     [q |-> "relcount", kind |-> "BELONGS_TO_SAME_CITATION"] >>
             ELSE << [q |-> "merge", kind |-> "INTERACTS_WITH"],
                     [q |-> "relcount", kind |-> "RELATES_TO"] >>

\* the store and the log as a loader method finds them
Start ==
    [nodes |-> nodes, rels |-> rels, constrained |-> constrained,
     logged |-> logged, failed |-> 0,
     pending |-> [created |-> 0, before |-> 0], checks |-> <<>>,
     running |-> [loader |-> "none", nodes |-> nodes, rels |-> rels]]

\* the batches whose CREATE breaks a uniqueness constraint
ForcedFailures(g, loader) ==
    {b \in Batches :
        \E r \in Rows :
            /\ BatchOf(r) = b
            /\ g.constrained
            /\ RowLabel(loader, r) \in UniqueLabels
            /\ g.nodes[RowLabel(loader, r)][RowKey(loader, r)] > 0}

\* CREATE (n:Label {...}) for every row of the file, in batches; env: the
\* batches the store fails for a reason of its own
CreateNodes(g, loader, env) ==
    LET failed == env \cup ForcedFailures(g, loader)
        rows   == {r \in Rows : BatchOf(r) \notin failed}
        kinds  == {RowLabel(loader, r) : r \in Rows}
    IN  [g EXCEPT
            !.nodes = [l \in NodeLabels |-> [k \in StoreKeys |->
                          g.nodes[l][k]
                          + Cardinality({r \in rows :
                                /\ RowLabel(loader, r) = l
                                /\ RowKey(loader, r) = k})]],
            !.failed = Cardinality(failed),
            !.pending =
                [created |-> Cardinality(rows),
                 before  |-> SumCounts([l \in NodeLabels |->
                                 get_node_count(g.nodes, l)], kinds)]]

\* the pairs of nodes the MATCH of a relationship query of client.py finds
\* for key k (sentence_id, or pmid for BELONGS_TO_SAME_CITATION)
Matches(g, type, k) ==
    CASE type = "HAS_ENTITY" -> g.nodes["Sentence"][k] * g.nodes["Entity"][k]
      [] type = "HAS_PREDICATION" ->
             g.nodes["Sentence"][k] * g.nodes["Predication"][k]
      [] type = "BELONGS_TO_SAME_CITATION" ->
             g.nodes["Sentence"][k] * g.nodes["Predication"][k]

\* client.py: CREATE (s)-[:type]->(e) for every matching pair
CreateRels(g, type) ==
    [g EXCEPT
        !.rels = [g.rels EXCEPT ![type] =
                     [k \in StoreKeys |-> g.rels[type][k] + Matches(g, type, k)]],
        !.pending =
            [created |-> SumCounts([k \in StoreKeys |-> Matches(g, type, k)],
                                   StoreKeys),
             before  |-> get_relationship_count(g.rels, type)]]

\* the nodes with id k, of any label
WithId(g, k) == SumCounts([l \in NodeLabels |-> g.nodes[l][k]], NodeLabels)

\* row r of kg.csv: x_id and y_id
x_id(r) == r
y_id(r) == (r % FileRows) + 1

\* primekg_client.py: MATCH (x), (y) ... MERGE (x)-[r:type]->(y) for every
\* row: a pair that has the relationship keeps it, every other pair gets one
MergeRels(g, type) ==
    LET merged == [k \in StoreKeys |->
                      IF k \in Rows
                      THEN WithId(g, x_id(k)) * WithId(g, y_id(k))
                      ELSE g.rels[type][k]]
    IN  [g EXCEPT
            !.rels = [g.rels EXCEPT ![type] = merged],
            !.pending =
                [created |-> SumCounts(merged, StoreKeys)
                             - get_relationship_count(g.rels, type),
                 before  |-> get_relationship_count(g.rels, type)]]

\* count = self.get_node_count(...) or get_relationship_count(...), logged;
\* checks pairs the count with what the query before it created and with
\* the count of the store once that query has run to completion
LogCount(g, kind, count, complete) ==
    [g EXCEPT
        !.logged = Append(g.logged, [kind |-> kind, count |-> count]),
        !.checks = Append(g.checks, [kind     |-> kind,
                                     created  |-> g.pending.created,
                                     before   |-> g.pending.before,
                                     count    |-> count,
                                     complete |-> complete])]

\* session.run of a query of apoc.periodic.iterate: the store as the query
\* leaves it, and the store as the query found it
Submit(g, query, done) ==
    [done EXCEPT !.running = [loader |-> query.kind, nodes |-> g.nodes,
                              rels |-> g.rels]]

\* the nodes a second session sees when the first `seen` batches of the
\* running load are committed
NodesSeen(g, env, seen) ==
    IF seen >= Cardinality(Batches) \/ g.running.loader \notin FileLoaders
    THEN g.nodes
    ELSE CreateNodes([g EXCEPT !.nodes = g.running.nodes], g.running.loader,
                     env \cup {b \in Batches : b > seen}).nodes

\* the relationships a second session sees: those of the running query (one
\* batch) or not
RelsSeen(g, seen) ==
    IF seen >= Cardinality(Batches) THEN g.rels ELSE g.running.rels

\* one query is applied; seen: the batches of the query before it that are
\* committed when a count is taken
Apply(g, query, env, seen) ==
    CASE query.q = "constraints" -> [g EXCEPT !.constrained = TRUE]
      [] query.q \in {"indexes", "show", "update"} -> g
      [] query.q = "create"   -> Submit(g, query, CreateNodes(g, query.kind, env))
      [] query.q = "relate"   -> Submit(g, query, CreateRels(g, query.kind))
      [] query.q = "merge"    -> Submit(g, query, MergeRels(g, query.kind))
      [] query.q = "count"    ->
             LogCount(g, query.kind,
                      get_node_count(NodesSeen(g, env, seen), query.kind),
                      get_node_count(g.nodes, query.kind))
      [] query.q = "relcount" ->
             LogCount(g, query.kind,
                      get_relationship_count(RelsSeen(g, seen), query.kind),
                      get_relationship_count(g.rels, query.kind))

RECURSIVE RunQueries(_, _, _, _, _)
\* the first n queries of qs are applied, in order; early: the count that
\* is taken while the query before it is running, and the batches it sees
RunQueries(g, qs, n, env, early) ==
    IF n = 0 THEN g
    ELSE Apply(RunQueries(g, qs, n - 1, env, early), qs[n], env,
               IF early.at = n THEN early.seen ELSE Cardinality(Batches))

\* every count is taken after the query before it has completed
OnTime == [at |-> 0, seen |-> Cardinality(Batches)]

\* the counts among the first n queries of the loader that may be taken
\* early in this call, with the batches committed by then.  A behaviour has
\* early counts or errors of the store, not both (this bounds the state
\* space: the two do not interact)
EarlyCounts(loader, n) ==
    {OnTime} \cup
    {[at |-> i, seen |-> k] :
        i \in {j \in 1..n : /\ early_counts < MaxEarlyCounts
                             /\ batch_faults = 0
                             /\ store_failures = 0
                             /\ Queries(loader)[j].q \in {"count", "relcount"}},
        k \in 0..(Cardinality(Batches) - 1)}

\* the batches the store may fail in this call
EnvFailures(loader) ==
    {env \in SUBSET Batches :
        /\ Cardinality(env) <= MaxBatchFailures - batch_faults
        /\ env # {} => loader \in FileLoaders /\ early_counts = 0}

\* the method runs all its queries and returns (None); the result of
\* session.run, with its failedBatches column, is not read
LoaderReturns(loader, env) ==
    \E early \in EarlyCounts(loader, Len(Queries(loader))) :
    \E g \in {RunQueries(Start, Queries(loader), Len(Queries(loader)), env,
                         early)} :
        /\ early_counts' = early_counts + (IF early.at = 0 THEN 0 ELSE 1)
        /\ nodes' = g.nodes
        /\ rels' = g.rels
        /\ constrained' = g.constrained
        /\ logged' = g.logged
        /\ last' = [loader |-> loader, outcome |-> "returned",
                    failed |-> g.failed, checks |-> g.checks]
        /\ batch_faults' = batch_faults + Cardinality(env)
        /\ load_calls' = load_calls + 1
        /\ UNCHANGED <<dangling, store_failures>>

\* query n of the method raises: the queries before it were applied, the
\* exception leaves the method
LoaderRaises(loader, n, env) ==
    /\ store_failures < MaxStoreFailures
    /\ early_counts = 0
    /\ n \in 1..Len(Queries(loader))
    /\ env # {} => n > 1
    /\ \E early \in EarlyCounts(loader, n - 1) :
       \E g \in {RunQueries(Start, Queries(loader), n - 1, env, early)} :
           /\ early_counts' = early_counts + (IF early.at = 0 THEN 0 ELSE 1)
           /\ nodes' = g.nodes
           /\ rels' = g.rels
           /\ constrained' = g.constrained
           /\ logged' = g.logged
           /\ last' = [loader |-> loader, outcome |-> "raised",
                       failed |-> g.failed, checks |-> g.checks]
    /\ batch_faults' = batch_faults + Cardinality(env)
    /\ store_failures' = store_failures + 1
    /\ load_calls' = load_calls + 1
    /\ UNCHANGED dangling

NoCall == [loader |-> "none", outcome |-> "none", failed |-> 0, checks |-> <<>>]

LoadIdle ==
    /\ dangling = FALSE
    /\ constrained = FALSE
    /\ nodes = [l \in {} |-> 0]
    /\ rels = [t \in {} |-> 0]
    /\ store_failures = 0
    /\ batch_faults = 0
    /\ load_calls = 0
    /\ early_counts = 0
    /\ logged = <<>>
    /\ last = NoCall

\* an empty store and the data files
LoadInit ==
    /\ dangling \in (IF program = "client" THEN BOOLEAN ELSE {FALSE})
    /\ constrained = FALSE
    /\ nodes = [l \in NodeLabels |-> [k \in StoreKeys |-> 0]]
    /\ rels = [t \in RelTypes |-> [k \in StoreKeys |-> 0]]
    /\ store_failures = 0
    /\ batch_faults = 0
    /\ load_calls = 0
    /\ early_counts = 0
    /\ logged = <<>>
    /\ last = NoCall

\* a loader method is called on a connector of the program
Call(loader) ==
    /\ load_calls < MaxLoads
    /\ \/ \E env \in EnvFailures(loader) : LoaderReturns(loader, env)
       \/ \E env \in EnvFailures(loader), n \in 1..Len(Queries(loader)) :
              LoaderRaises(loader, n, env)
    /\ UNCHANGED <<sanVars, csvVars, mainVars, toolVars>>

create_constraints == program \in Programs /\ Call("create_constraints")

load_citations == program = "client" /\ Call("load_citations")

load_sentences == program = "client" /\ Call("load_sentences")

load_entities == program = "client" /\ Call("load_entities")

load_predications == program = "client" /\ Call("load_predications")

load_nodes == program = "primekg" /\ Call("load_nodes")

create_relationships == program \in Programs /\ Call("create_relationships")

LoadNext ==
    \/ create_constraints
    \/ load_citations
    \/ load_sentences
    \/ load_entities
    \/ load_predications
    \/ load_nodes
    \/ create_relationships

----------------------------------------------------------------------------
(* main of client.py and of primekg_client.py                               *)

Flags == {"constraints", "citations", "sentences", "entities", "predications",
          "relationships", "all"}

PrimeFlags == {"constraints", "nodes", "relationships", "all"}

FlagsOf(p) == IF p = "client" THEN Flags ELSE PrimeFlags

\* the relationships stage moved before the node-loading stages
RelationshipsFirst == <<"constraints", "relationships", "citations",
                        "sentences", "entities", "predications">>

\* the order of the if statements of client.py, lines 367-389
StageOrder == <<"constraints", "citations", "sentences", "entities",
                "predications", "relationships">>

\* the order of the if statements of primekg_client.py, lines 205-215
PrimeStageOrder == <<"constraints", "nodes", "relationships">>

Stages == IF program = "client" THEN StageOrder ELSE PrimeStageOrder

\* the method the if statement of a stage calls
LoaderOf(stage) ==
    CASE stage = "constraints"   -> "create_constraints"
      [] stage = "citations"     -> "load_citations"
      [] stage = "sentences"     -> "load_sentences"
      [] stage = "entities"      -> "load_entities"
      [] stage = "predications"  -> "load_predications"
      [] stage = "nodes"         -> "load_nodes"
      [] stage = "relationships" -> "create_relationships"

\* run_all without its second operand: only --all selects every stage
run_all_flag_only(a) == "all" \in a

\* args.all or not any([...])
run_all(a) == "all" \in a \/ a \ {"all"} = {}

\* the condition of each if statement: run_all or args.<stage>
selected(a, stage) == run_all(a) \/ stage \in a

\* what Neo4jConnector.__init__ does after GraphDatabase.driver(uri), each of
\* which may raise: nothing in client.py, _verify_connection and
\* _verify_file_access in primekg_client.py
InitSteps(p) == IF p = "client" THEN {} ELSE {"connection", "file"}

\* main is not running
MainOff ==
    /\ args = {}
    /\ argv = "flags"
    /\ init_fails = "none"
    /\ mpc = "idle"
    /\ stage_idx = 0
    /\ in_stage = FALSE
    /\ stage_status = [s \in {} |-> "not_run"]
    /\ attempts = [s \in {} |-> 0]
    /\ driver_open = FALSE
    /\ caught = "none"
    /\ exit_status = -1

MainIdle == program = "client" /\ MainOff

MainInit ==
    /\ program \in Programs
    /\ args \in SUBSET FlagsOf(program)
    /\ argv \in {"flags", "help", "unknown"}
    /\ init_fails \in {"none", "driver"} \cup InitSteps(program)
    /\ mpc = "connect"
    /\ stage_idx = 1
    /\ in_stage = FALSE
    /\ stage_status = [i \in 1..Len(Stages) |-> "not_run"]
    /\ attempts = [i \in 1..Len(Stages) |-> 0]
    /\ driver_open = FALSE
    /\ caught = "none"
    /\ exit_status = -1

\* connector = Neo4jConnector(uri): the driver is created (and, in
\* primekg_client.py, the connection and the file are verified)
MainConnect ==
    /\ mpc = "connect"
    /\ init_fails = "none"
    /\ driver_open' = TRUE
    /\ mpc' = "parse"
    /\ UNCHANGED <<program, args, argv, init_fails, stage_idx, in_stage,
                   stage_status, attempts, caught, exit_status>>
    /\ UNCHANGED <<sanVars, csvVars, loadVars, toolVars>>

\* Neo4jConnector(uri) raises: GraphDatabase.driver itself, or a verification
\* after the driver was created; the call is outside main's try statement, so
\* the exception ends the process with a traceback and status 1
MainConnectFails ==
    /\ mpc = "connect"
    /\ init_fails # "none"
    /\ driver_open' = (init_fails # "driver")
    /\ exit_status' = 1
    /\ mpc' = "exit"
    /\ UNCHANGED <<program, args, argv, init_fails, stage_idx, in_stage,
                   stage_status, attempts, caught>>
    /\ UNCHANGED <<sanVars, csvVars, loadVars, toolVars>>

\* args = parse_args() returns the flags
MainParseArgs ==
    /\ mpc = "parse"
    /\ argv = "flags"
    /\ mpc' = "try"
    /\ UNCHANGED <<program, args, argv, init_fails, stage_idx, in_stage,
                   stage_status, attempts, driver_open, caught, exit_status>>
    /\ UNCHANGED <<sanVars, csvVars, loadVars, toolVars>>

\* parser.parse_args() ends the process: SystemExit(0) after --help,
\* SystemExit(2) after an argument it does not know; the call is outside
\* main's try statement
MainParseArgsExits ==
    /\ mpc = "parse"
    /\ argv # "flags"
    /\ exit_status' = IF argv = "help" THEN 0 ELSE 2
    /\ mpc' = "exit"
    /\ UNCHANGED <<program, args, argv, init_fails, stage_idx, in_stage,
                   stage_status, attempts, driver_open, caught>>
    /\ UNCHANGED <<sanVars, csvVars, loadVars, toolVars>>

\* the if of a stage that is not selected
MainSkipStage ==
    /\ mpc = "try"
    /\ ~in_stage
    /\ stage_idx <= Len(Stages)
    /\ ~selected(args, Stages[stage_idx])
    /\ stage_idx' = stage_idx + 1
    /\ UNCHANGED <<program, args, argv, init_fails, mpc, in_stage,
                   stage_status, attempts, driver_open, caught, exit_status>>
    /\ UNCHANGED <<sanVars, csvVars, loadVars, toolVars>>

\* the stage's method is called
MainStartStage ==
    /\ mpc = "try"
    /\ ~in_stage
    /\ stage_idx <= Len(Stages)
    /\ selected(args, Stages[stage_idx])
    /\ in_stage' = TRUE
    /\ stage_status' = [stage_status EXCEPT ![stage_idx] = "running"]
    /\ attempts' = [attempts EXCEPT ![stage_idx] = @ + 1]
    /\ UNCHANGED <<program, args, argv, init_fails, mpc, stage_idx,
                   driver_open, caught, exit_status>>
    /\ UNCHANGED <<sanVars, csvVars, loadVars, toolVars>>

\* the stage's method applies its queries, logs its counts and returns
MainStageReturns ==
    /\ mpc = "try"
    /\ in_stage
    /\ \E env \in EnvFailures(LoaderOf(Stages[stage_idx])) :
           LoaderReturns(LoaderOf(Stages[stage_idx]), env)
    /\ stage_status' = [stage_status EXCEPT ![stage_idx] = "done"]
    /\ in_stage' = FALSE
    /\ stage_idx' = stage_idx + 1
    /\ UNCHANGED <<program, args, argv, init_fails, mpc, attempts,
                   driver_open, caught, exit_status>>
    /\ UNCHANGED <<sanVars, csvVars, toolVars>>

\* the error of a stage is logged and main goes on to the next stage
MainStageRaisesContinues ==
    /\ mpc = "try"
    /\ in_stage
    /\ \E env \in EnvFailures(LoaderOf(Stages[stage_idx])),
          n \in 1..Len(Queries(LoaderOf(Stages[stage_idx]))) :
           LoaderRaises(LoaderOf(Stages[stage_idx]), n, env)
    /\ stage_status' = [stage_status EXCEPT ![stage_idx] = "failed"]
    /\ in_stage' = FALSE
    /\ caught' = Stages[stage_idx]
    /\ stage_idx' = stage_idx + 1
    /\ UNCHANGED <<program, args, argv, init_fails, mpc, attempts,
                   driver_open, exit_status>>
    /\ UNCHANGED <<sanVars, csvVars, toolVars>>

\* a query of the stage's method raises: nothing in the method catches it,
\* main's except clause logs it
MainStageRaises ==
    /\ mpc = "try"
    /\ in_stage
    /\ \E env \in EnvFailures(LoaderOf(Stages[stage_idx])),
          n \in 1..Len(Queries(LoaderOf(Stages[stage_idx]))) :
           LoaderRaises(LoaderOf(Stages[stage_idx]), n, env)
    /\ stage_status' = [stage_status EXCEPT ![stage_idx] = "failed"]
    /\ in_stage' = FALSE
    /\ caught' = Stages[stage_idx]
    /\ mpc' = "finally"
    /\ UNCHANGED <<program, args, argv, init_fails, stage_idx, attempts,
                   driver_open, exit_status>>
    /\ UNCHANGED <<sanVars, csvVars, toolVars>>

\* the final statistics: client.py counts the nodes of four labels,
\* primekg_client.py the nodes with the label Node, both every relationship
StatisticsLabels ==
    IF program = "client" THEN <<"Citation", "Sentence", "Entity", "Predication">>
    ELSE <<"Node">>

\* the final statistics are read from the store and logged
MainStatistics ==
    /\ mpc = "try"
    /\ ~in_stage
    /\ stage_idx = Len(Stages) + 1
    /\ logged' = logged
                 \o [i \in 1..Len(StatisticsLabels) |->
                        [kind  |-> StatisticsLabels[i],
                         count |-> get_node_count(nodes, StatisticsLabels[i])]]
                 \o << [kind  |-> "None",
                        count |-> get_relationship_count(rels, "None")] >>
    /\ mpc' = "finally"
    /\ UNCHANGED <<program, args, argv, init_fails, stage_idx, in_stage,
                   stage_status, attempts, driver_open, caught, exit_status>>
    /\ UNCHANGED <<dangling, constrained, nodes, rels, store_failures,
                   batch_faults, load_calls, early_counts, last>>
    /\ UNCHANGED <<sanVars, csvVars, toolVars>>

\* a query of the final statistics raises; main's except clause logs it
MainStatisticsRaises ==
    /\ mpc = "try"
    /\ ~in_stage
    /\ stage_idx = Len(Stages) + 1
    /\ store_failures < MaxStoreFailures
    /\ store_failures' = store_failures + 1
    /\ caught' = "statistics"
    /\ mpc' = "finally"
    /\ UNCHANGED <<program, args, argv, init_fails, stage_idx, in_stage,
                   stage_status, attempts, driver_open, exit_status>>
    /\ UNCHANGED <<dangling, constrained, nodes, rels, batch_faults,
                   load_calls, early_counts, logged, last>>
    /\ UNCHANGED <<sanVars, csvVars, toolVars>>

\* finally: connector.close(); main returns and the process ends with
\* status 0
MainClose ==
    /\ mpc = "finally"
    /\ driver_open' = FALSE
    /\ exit_status' = 0
    /\ mpc' = "exit"
    /\ UNCHANGED <<program, args, argv, init_fails, stage_idx, in_stage,
                   stage_status, attempts, caught>>
    /\ UNCHANGED <<sanVars, csvVars, loadVars, toolVars>>

MainNext ==
    \/ MainConnect
    \/ MainConnectFails
    \/ MainParseArgs
    \/ MainParseArgsExits
    \/ MainSkipStage
    \/ MainStartStage
    \/ MainStageReturns
    \/ MainStageRaises
    \/ MainStatistics
    \/ MainStatisticsRaises
    \/ MainClose

----------------------------------------------------------------------------
(* process_sql_to_csv of process_entity.py, on one line of the SQL file.    *)
(* A line is [insert, rest]: whether it starts with "INSERT INTO `ENTITY`   *)
(* VALUES", and the characters after that prefix (SQ is the single quote).  *)

\* characters of the rest of a line
MaxValuesLen == 4

SQ == "'"

SqlAlphabet == {"(", ")", "a", ",", SQ}

SqlLines ==
    {[insert |-> FALSE, rest |-> <<"a">>]}
        \cup {[insert |-> TRUE, rest |-> r] :
                 r \in UNION {[1..k -> SqlAlphabet] : k \in 0..MaxValuesLen}}

\* s[a:b] for 0 <= a and b <= len(s)
Slice(s, a, b) == SubSeq(s, a + 1, b)

\* line[line.find("("):] ; find returns -1 when the line has no "(", and
\* line[-1:] is the last character of the line, the newline
values_of(rest) ==
    IF "(" \in Range(rest)
    THEN Slice(rest, (CHOOSE i \in 1..Len(rest) :
                         /\ rest[i] = "("
                         /\ \A j \in 1..(i - 1) : rest[j] # "(") - 1, Len(rest))
    ELSE <<"\n">>

\* lines 80-89: the loop body for the character at index i
ScanStep(st, part, i) ==
    LET char == part[i + 1] IN
        IF char = "(" /\ Len(st.stack) = 0
        THEN [st EXCEPT !.start = i]
        ELSE IF char = "("
        THEN [st EXCEPT !.stack = Append(st.stack, char)]
        ELSE IF char = ")"
        THEN IF Len(st.stack) > 0
             THEN [st EXCEPT !.stack = SubSeq(st.stack, 1, Len(st.stack) - 1)]
             ELSE IF st.start # -1
             THEN [st EXCEPT !.matches = Append(st.matches,
                                             Slice(part, st.start + 1, i)),
                             !.start = -1]
             ELSE st
        ELSE st

\* the number of single quotes of s
Quotes(s) == Cardinality({i \in 1..Len(s) : s[i] = SQ})

\* the commas re.split splits on: those followed by an even number of single
\* quotes up to the end of the string
SplitPoints(s) ==
    {i \in 1..Len(s) : s[i] = "," /\ Quotes(SubSeq(s, i + 1, Len(s))) % 2 = 0}

RECURSIVE SplitFrom(_, _)
\* re.split(r",(?=(?:[^']*'[^']*')*[^']*$)", match), from index a on
SplitFrom(s, a) ==
    IF \E i \in SplitPoints(s) : i >= a
    THEN LET p == CHOOSE i \in SplitPoints(s) :
                      i >= a /\ \A j \in SplitPoints(s) : j >= a => i <= j
         IN  <<SubSeq(s, a, p - 1)>> \o SplitFrom(s, p + 1)
    ELSE <<SubSeq(s, a, Len(s))>>

RECURSIVE strip_chars(_, _)
\* str.strip(chars)
strip_chars(s, chars) ==
    IF s # <<>> /\ Head(s) \in chars THEN strip_chars(Tail(s), chars)
    ELSE IF s # <<>> /\ s[Len(s)] \in chars
    THEN strip_chars(SubSeq(s, 1, Len(s) - 1), chars)
    ELSE s

RECURSIVE unescape_quotes(_)
\* value.replace("\\'", "'")
unescape_quotes(s) ==
    IF Len(s) < 2 THEN s
    ELSE IF s[1] = BS /\ s[2] = SQ
    THEN <<SQ>> \o unescape_quotes(SubSeq(s, 3, Len(s)))
    ELSE <<s[1]>> \o unescape_quotes(Tail(s))

\* clean_value, lines 6-11
clean_value(value) == unescape_quotes(strip_chars(value, {SQ, " "}))

\* lines 94-98: the row written for one match
sql_row(match) ==
    LET row == SplitFrom(match, 1) IN [c \in 1..Len(row) |-> clean_value(row[c])]

SqlIdle ==
    /\ line = [insert |-> FALSE, rest |-> <<>>]
    /\ qpc = "idle"
    /\ values_part = <<>>
    /\ scan = [i |-> 0, stack |-> <<>>, start |-> -1, matches |-> <<>>]
    /\ csv_rows = <<>>

SqlInit ==
    /\ line \in SqlLines
    /\ qpc = "line"
    /\ values_part = <<>>
    /\ scan = [i |-> 0, stack |-> <<>>, start |-> -1, matches |-> <<>>]
    /\ csv_rows = <<>>

\* line 72: a line that is not an INSERT statement is passed over
SqlSkipLine ==
    /\ qpc = "line"
    /\ ~line.insert
    /\ qpc' = "done"
    /\ UNCHANGED <<line, values_part, scan, csv_rows>>
    /\ UNCHANGED notSql

\* lines 74-77
SqlTakeValues ==
    /\ qpc = "line"
    /\ line.insert
    /\ values_part' = values_of(line.rest)
    /\ scan' = [i |-> 0, stack |-> <<>>, start |-> -1, matches |-> <<>>]
    /\ qpc' = "scan"
    /\ UNCHANGED <<line, csv_rows>>
    /\ UNCHANGED notSql

\* lines 79-89: one iteration of the scanning loop
SqlScanChar ==
    /\ qpc = "scan"
    /\ scan.i < Len(values_part)
    /\ scan' = [ScanStep(scan, values_part, scan.i) EXCEPT !.i = scan.i + 1]
    /\ UNCHANGED <<line, qpc, values_part, csv_rows>>
    /\ UNCHANGED notSql

\* lines 91-104: every match is split, cleaned and written as one row
SqlWriteRows ==
    /\ qpc = "scan"
    /\ scan.i = Len(values_part)
    /\ csv_rows' = csv_rows \o [m \in 1..Len(scan.matches) |->
                                   sql_row(scan.matches[m])]
    /\ qpc' = "done"
    /\ UNCHANGED <<line, values_part, scan>>
    /\ UNCHANGED notSql

SqlNext ==
    \/ SqlSkipLine
    \/ SqlTakeValues
    \/ SqlScanChar
    \/ SqlWriteRows

----------------------------------------------------------------------------
(* merge_duplicates of semmed/merge_dups.py.  The input file is the rows    *)
(* csv.reader makes of it, the header row first; a field is a string.       *)

\* data rows of the input file
MaxMergeRows == 3

MergeHeader == << <<"s">>, <<"p">>, <<"o">> >>

\* data rows: two columns, three columns, four columns, a blank line
MergeRowSamples ==
    { << <<"a">>, <<"b">> >>,
      << <<"a">>, <<"a">>, <<"a">> >>,
      << <<"a">>, <<"a">>, <<"b">> >>,
      << <<"a">>, <<"a">>, <<"a">>, <<"b">> >>,
      <<>> }

MergeInputs ==
    {<<>>} \cup
    {<<MergeHeader>> \o d :
        d \in UNION {[1..k -> MergeRowSamples] : k \in 0..MaxMergeRows}}

\* every row is given a key, whatever its length
has_key_always(row) == TRUE

\* line 24
has_key(row) == Len(row) >= 3

\* line 26: tuple(row[:3])
key_of(row) == SubSeq(row, 1, IF Len(row) < 3 THEN Len(row) ELSE 3)

\* line 28: unique_rows[key] += 1 on a defaultdict(int), which keeps the
\* keys in the order of their first insertion
increment(counts, key) ==
    IF \E j \in 1..Len(counts) : counts[j].key = key
    THEN [j \in 1..Len(counts) |->
             IF counts[j].key = key
             THEN [counts[j] EXCEPT !.frequency = @ + 1]
             ELSE counts[j]]
    ELSE Append(counts, [key |-> key, frequency |-> 1])

\* str(frequency)
str_int(n) == IF n = 0 THEN <<"0">> ELSE DigitsToChars(NatDigits(n))

MergeIdle ==
    /\ merge_input = <<>>
    /\ gpc = "idle"
    /\ merge_pos = 0
    /\ header = <<>>
    /\ unique_rows = <<>>
    /\ merge_output = <<>>

MergeInit ==
    /\ merge_input \in MergeInputs
    /\ gpc = "start"
    /\ merge_pos = 0
    /\ header = <<>>
    /\ unique_rows = <<>>
    /\ merge_output = <<>>

\* line 20 on an empty file: next(reader) raises StopIteration
MergeNoHeader ==
    /\ gpc = "start"
    /\ Len(merge_input) = 0
    /\ gpc' = "raised"
    /\ UNCHANGED <<merge_input, merge_pos, header, unique_rows, merge_output>>
    /\ UNCHANGED notMerge

\* lines 13-20
MergeReadHeader ==
    /\ gpc = "start"
    /\ Len(merge_input) > 0
    /\ header' = merge_input[1]
    /\ merge_pos' = 1
    /\ gpc' = "read"
    /\ UNCHANGED <<merge_input, unique_rows, merge_output>>
    /\ UNCHANGED notMerge

\* lines 23-28: one row of the reader
MergeReadRow ==
    /\ gpc = "read"
    /\ merge_pos < Len(merge_input)
    /\ merge_pos' = merge_pos + 1
    /\ unique_rows' = IF has_key(merge_input[merge_pos + 1])
                      THEN increment(unique_rows,
                                     key_of(merge_input[merge_pos + 1]))
                      ELSE unique_rows
    /\ UNCHANGED <<merge_input, gpc, header, merge_output>>
    /\ UNCHANGED notMerge

\* lines 30-38: the output file is opened and the header row written
MergeWriteHeader ==
    /\ gpc = "read"
    /\ merge_pos = Len(merge_input)
    /\ merge_output' = <<header \o << <<"f", "r", "e", "q", "u", "e", "n", "c", "y">> >> >>
    /\ merge_pos' = 0
    /\ gpc' = "write"
    /\ UNCHANGED <<merge_input, header, unique_rows>>
    /\ UNCHANGED notMerge

\* lines 41-47: one item of unique_rows is written
MergeWriteRow ==
    /\ gpc = "write"
    /\ merge_pos < Len(unique_rows)
    /\ merge_output' = Append(merge_output,
                              Append(unique_rows[merge_pos + 1].key,
                                     str_int(unique_rows[merge_pos + 1].frequency)))
    /\ merge_pos' = merge_pos + 1
    /\ UNCHANGED <<merge_input, gpc, header, unique_rows>>
    /\ UNCHANGED notMerge

\* line 49: the function returns
MergeReturn ==
    /\ gpc = "write"
    /\ merge_pos = Len(unique_rows)
    /\ gpc' = "returned"
    /\ UNCHANGED <<merge_input, merge_pos, header, unique_rows, merge_output>>
    /\ UNCHANGED notMerge

MergeNext ==
    \/ MergeNoHeader
    \/ MergeReadHeader
    \/ MergeReadRow
    \/ MergeWriteHeader
    \/ MergeWriteRow
    \/ MergeReturn

----------------------------------------------------------------------------
(* sample_files and process_file of sample_data.py.  A file is              *)
(* [exists, lines]; line i of the source file f is <<f, i>>.  The pool has  *)
(* n_workers processes, each of which takes the next task of the queue,     *)
(* runs process_file on it and hands the result back.                       *)

\* lines of a source file
MaxLines == 2
\* the n_lines argument
MaxNLines == 2
\* processes of the pool
MaxWorkers == 2

FileNames == {"a.csv", "b.csv", "notes.txt"}

\* f.endswith('.csv')
endswith_csv(f) == f \in {"a.csv", "b.csv"}

NoFile == [exists |-> FALSE, lines |-> <<>>]

FileOf(f, n) == [exists |-> TRUE, lines |-> [i \in 1..n |-> <<f, i>>]]

\* the orders in which os.listdir may return the names in S
Listings(S) ==
    {o \in [1..Cardinality(S) -> S] : \A i, j \in 1..Cardinality(S) :
                                         o[i] = o[j] => i = j}

\* os.path.join(dest_dir, filename): the directory it is in
dest_path == IF same_dir THEN "source" ELSE "dest"

Resting == [busy |-> FALSE, name |-> "", i |-> 0]

SampleIdle ==
    /\ source_files = [f \in {} |-> NoFile]
    /\ same_dir = FALSE
    /\ n_lines = 0
    /\ n_workers = 0
    /\ kpc = "idle"
    /\ fs = [d \in {} |-> NoFile]
    /\ process_args = <<>>
    /\ workers = <<>>
    /\ results = <<>>
    /\ writers = [f \in {} |-> {}]

SampleInit ==
    /\ source_files \in {[f \in FileNames |-> FileOf(f, n[f])] :
                            n \in [FileNames -> 0..MaxLines]}
    /\ same_dir \in BOOLEAN
    /\ n_lines \in 0..MaxNLines
    /\ n_workers \in 1..MaxWorkers
    /\ kpc = "start"
    /\ fs = [d \in {"source", "dest"} |->
                IF d = "source" THEN source_files
                ELSE [f \in FileNames |-> NoFile]]
    /\ process_args = <<>>
    /\ workers = [w \in 1..n_workers |-> Resting]
    /\ results = <<>>
    /\ writers = [f \in FileNames |-> {}]

\* lines 39-53: the directory is listed, the arguments are built and the
\* pool is started
SampleStart ==
    /\ kpc = "start"
    /\ \E listing \in Listings({f \in FileNames : endswith_csv(f)}) :
           process_args' = listing
    /\ kpc' = "pool"
    /\ UNCHANGED <<source_files, same_dir, n_lines, n_workers, fs, workers,
                   results, writers>>
    /\ UNCHANGED notSample

\* a process of the pool takes the next task; lines 15-18: process_file
\* opens the source for reading and the destination for writing, which
\* creates it or empties it
WorkerOpen(w) ==
    /\ kpc = "pool"
    /\ ~workers[w].busy
    /\ Len(process_args) > 0
    /\ process_args' = Tail(process_args)
    /\ workers' = [workers EXCEPT ![w] = [busy |-> TRUE,
                                          name |-> Head(process_args), i |-> 0]]
    /\ fs' = [fs EXCEPT ![dest_path][Head(process_args)] =
                            [exists |-> TRUE, lines |-> <<>>]]
    /\ writers' = [writers EXCEPT ![Head(process_args)] = @ \cup {w}]
    /\ UNCHANGED <<source_files, same_dir, n_lines, n_workers, kpc, results>>
    /\ UNCHANGED notSample

\* lines 20-23: the next line of the source is read and written
WorkerCopyLine(w) ==
    /\ kpc = "pool"
    /\ workers[w].busy
    /\ workers[w].i < Len(fs["source"][workers[w].name].lines)
    /\ workers[w].i < n_lines
    /\ fs' = [fs EXCEPT ![dest_path][workers[w].name].lines =
                 Append(@, fs["source"][workers[w].name].lines[workers[w].i + 1])]
    /\ workers' = [workers EXCEPT ![w].i = @ + 1]
    /\ UNCHANGED <<source_files, same_dir, n_lines, n_workers, kpc,
                   process_args, results, writers>>
    /\ UNCHANGED notSample

\* lines 20-25: the source is exhausted or n_lines lines are copied; the
\* files are closed and the name is returned; lines 54-55: the main process
\* receives it
WorkerReturn(w) ==
    /\ kpc = "pool"
    /\ workers[w].busy
    /\ \/ workers[w].i >= Len(fs["source"][workers[w].name].lines)
       \/ workers[w].i >= n_lines
    /\ results' = Append(results, workers[w].name)
    /\ workers' = [workers EXCEPT ![w] = Resting]
    /\ UNCHANGED <<source_files, same_dir, n_lines, n_workers, kpc, fs,
                   process_args, writers>>
    /\ UNCHANGED notSample

\* lines 53-55: every result is received, the pool is closed and
\* sample_files returns
SampleReturn ==
    /\ kpc = "pool"
    /\ Len(process_args) = 0
    /\ \A w \in 1..n_workers : ~workers[w].busy
    /\ kpc' = "returned"
    /\ UNCHANGED <<source_files, same_dir, n_lines, n_workers, fs,
                   process_args, workers, results, writers>>
    /\ UNCHANGED notSample

\* some process of the pool takes a step
process_file_opens == \E w \in 1..n_workers : WorkerOpen(w)

process_file_copies == \E w \in 1..n_workers : WorkerCopyLine(w)

process_file_returns == \E w \in 1..n_workers : WorkerReturn(w)

SampleNext ==
    \/ SampleStart
    \/ process_file_opens
    \/ process_file_copies
    \/ process_file_returns
    \/ SampleReturn

----------------------------------------------------------------------------
(* KGBioportalDownloader of kg_bioportal/download_kg_bioportal.py: the      *)
(* stats of one downloader object over calls of download_all_ontologies.    *)
(* What the server lists and whether a download succeeds is the             *)
(* environment's choice at each call.                                       *)

\* calls of download_all_ontologies on one object
MaxCalls == 2
\* ontologies the server lists
MaxOntologies == 2
\* rows of a nodes or edges file
MaxFrameLen == 1

Ontologies == {"GO", "DOID"}

\* get_all_ontologies: the names found in the listing, [] when the request
\* fails
OntologyLists ==
    {o \in UNION {[1..k -> Ontologies] : k \in 0..MaxOntologies} :
        \A i, j \in 1..Len(o) : o[i] = o[j] => i = j}

\* lines 195-196: all_ontologies[:max_ontologies] when max_ontologies is
\* neither None nor 0 (0 stands for both)
truncate(ontologies, max_ontologies) ==
    IF max_ontologies # 0
    THEN SubSeq(ontologies, 1, IF max_ontologies < Len(ontologies)
                               THEN max_ontologies ELSE Len(ontologies))
    ELSE ontologies

DownloadIdle ==
    /\ stats = [total_ontologies |-> 0]
    /\ dpc = "idle"
    /\ all_ontologies = <<>>
    /\ downloaded_data = {}
    /\ attempted = <<>>
    /\ calls = 0

\* lines 38-51: __init__
DownloadInit ==
    /\ stats = [total_ontologies |-> 0, successful_downloads |-> 0,
                failed_downloads |-> 0, total_nodes |-> 0, total_edges |-> 0,
                failed_ontologies |-> <<>>]
    /\ dpc = "ready"
    /\ all_ontologies = <<>>
    /\ downloaded_data = {}
    /\ attempted = <<>>
    /\ calls = 0

\* lines 190-199: download_all_ontologies is called; the list is fetched and
\* cut, total_ontologies is set
DownloadCall ==
    /\ dpc = "ready"
    /\ calls < MaxCalls
    /\ \E listed \in OntologyLists, max_ontologies \in 0..MaxOntologies :
           /\ all_ontologies' = truncate(listed, max_ontologies)
           /\ stats' = [stats EXCEPT !.total_ontologies =
                                       Len(truncate(listed, max_ontologies))]
    /\ downloaded_data' = {}
    /\ attempted' = <<>>
    /\ dpc' = "loop"
    /\ UNCHANGED calls
    /\ UNCHANGED notDownload

\* lines 201-211: download_ontology_data returns the data of the next
\* ontology
DownloadSucceeds ==
    /\ dpc = "loop"
    /\ Len(attempted) < Len(all_ontologies)
    /\ \E n_nodes \in 0..MaxFrameLen, n_edges \in 0..MaxFrameLen :
           stats' = [stats EXCEPT !.successful_downloads = @ + 1,
                                  !.total_nodes = @ + n_nodes,
                                  !.total_edges = @ + n_edges]
    /\ downloaded_data' = downloaded_data
                              \cup {all_ontologies[Len(attempted) + 1]}
    /\ attempted' = Append(attempted, all_ontologies[Len(attempted) + 1])
    /\ UNCHANGED <<dpc, all_ontologies, calls>>
    /\ UNCHANGED notDownload

\* lines 201-215: download_ontology_data returns None (no version, a failed
\* request, missing or unreadable files)
DownloadFails ==
    /\ dpc = "loop"
    /\ Len(attempted) < Len(all_ontologies)
    /\ stats' = [stats EXCEPT !.failed_downloads = @ + 1,
                              !.failed_ontologies =
                                  Append(@, all_ontologies[Len(attempted) + 1])]
    /\ attempted' = Append(attempted, all_ontologies[Len(attempted) + 1])
    /\ UNCHANGED <<dpc, all_ontologies, downloaded_data, calls>>
    /\ UNCHANGED notDownload

\* lines 221-222: the call returns downloaded_data
DownloadReturn ==
    /\ dpc = "loop"
    /\ Len(attempted) = Len(all_ontologies)
    /\ dpc' = "ready"
    /\ calls' = calls + 1
    /\ UNCHANGED <<stats, all_ontologies, downloaded_data, attempted>>
    /\ UNCHANGED notDownload

DownloadNext ==
    \/ DownloadCall
    \/ DownloadSucceeds
    \/ DownloadFails
    \/ DownloadReturn

\* the data preparation scripts before they are run
ToolsIdle == SqlIdle /\ MergeIdle /\ SampleIdle /\ DownloadIdle

----------------------------------------------------------------------------
(* Specifications *)

vars == <<sanVars, csvVars, mainVars, loadVars, toolVars>>

Init == SanIdle /\ CsvIdle /\ MainIdle /\ LoadIdle /\ ToolsIdle

Next == CallCleanField \/ CallProcessRow

\* the sanitizer's functions on bounded inputs
Spec == Init /\ [][Next]_vars

InitCsv == SanIdle /\ CsvInit /\ MainIdle /\ LoadIdle /\ ToolsIdle

\* preprocess_csv on bounded files
SpecCsv == InitCsv /\ [][CsvNext]_vars

InitMain == SanIdle /\ CsvIdle /\ MainInit /\ LoadInit /\ ToolsIdle

\* main of either program on every choice of flags, against a store that
\* fails a bounded number of queries and batches
SpecMain == InitMain /\ [][MainNext]_vars

InitLoad ==
    /\ SanIdle
    /\ CsvIdle
    /\ program \in Programs
    /\ MainOff
    /\ LoadInit
    /\ ToolsIdle

\* the loader methods of a connector called directly, in any order, against
\* a store that fails a bounded number of queries and batches
SpecLoad == InitLoad /\ [][LoadNext]_vars

InitSql ==
    /\ SanIdle /\ CsvIdle /\ MainIdle /\ LoadIdle
    /\ SqlInit /\ MergeIdle /\ SampleIdle /\ DownloadIdle

\* process_sql_to_csv on every line within the bound
SpecSql == InitSql /\ [][SqlNext]_vars

InitMerge ==
    /\ SanIdle /\ CsvIdle /\ MainIdle /\ LoadIdle
    /\ SqlIdle /\ MergeInit /\ SampleIdle /\ DownloadIdle

\* merge_duplicates on bounded files
SpecMerge == InitMerge /\ [][MergeNext]_vars

InitSample ==
    /\ SanIdle /\ CsvIdle /\ MainIdle /\ LoadIdle
    /\ SqlIdle /\ MergeIdle /\ SampleInit /\ DownloadIdle

\* sample_files on bounded directories, under every interleaving of the
\* processes of the pool
SpecSample == InitSample /\ [][SampleNext]_vars

InitDownload ==
    /\ SanIdle /\ CsvIdle /\ MainIdle /\ LoadIdle
    /\ SqlIdle /\ MergeIdle /\ SampleIdle /\ DownloadInit

\* calls of download_all_ontologies on one downloader object
SpecDownload == InitDownload /\ [][DownloadNext]_vars

----------------------------------------------------------------------------
(* Properties of the sanitizer *)

Count(c, s) == Cardinality({i \in 1..Len(s) : s[i] = c})

Trimmed(s) ==
    s = <<>> \/ (s[1] \notin WhitespaceChars /\ s[Len(s)] \notin WhitespaceChars)

\* a reader that takes a backslash together with the character after it
\* meets no bare double quote and no dangling backslash
RECURSIVE NoBareQuote(_)
NoBareQuote(s) ==
    IF s = <<>> THEN TRUE
    ELSE IF Head(s) = BS THEN Len(s) >= 2 /\ NoBareQuote(Tail(Tail(s)))
    ELSE Head(s) # DQ /\ NoBareQuote(Tail(s))

\* cleaning the field raises inside clean_field's try block
field_raises(field) ==
    /\ field # NoneField
    /\ looks_numeric(strip(field))
    /\ numeric_raises(strip(field))

\* C1: process_row returns exactly expected_columns fields for a row of any
\* length and any expected_columns >= 0, also when it takes its except branch.
C1_RowWidth == op = "process_row" => Len(ret_row) = arg_n

\* C1 witness: the except branch of process_row returned a row of width 2
C1_Witness ==
    /\ op = "process_row"
    /\ ~arg_row.iterable
    /\ arg_n = 2
    /\ ret_row = << <<>>, <<>> >>

\* C2: the row ["  42 ", "", foo"bar, "3.0"] with 5 expected columns comes
\* back as ["42", "", foo\"bar, "3.0", ""].
C2_Scenario ==
    (op = "process_row" /\ arg_row = ScenarioRow /\ arg_n = 5)
        => ret_row = ScenarioExpected

\* C2 witness: process_row was called on the scenario's row with 5 columns
C2_Witness ==
    /\ op = "process_row"
    /\ arg_row = ScenarioRow
    /\ arg_n = 5
    /\ Len(ret_row) = 5

\* C3: the value clean_field returns has no leading and no trailing
\* whitespace, on every path.
C3_Trimmed == op = "clean_field" => Trimmed(ret_field)

\* C4: every character of the value clean_field returns is printable ASCII
\* (0x20..0x7E), on every path.
C4_Printable ==
    op = "clean_field" => \A i \in 1..Len(ret_field) : ret_field[i] \notin InvalidChars

\* C5: in the value clean_field returns every double quote follows an
\* escaping backslash and every backslash of the input is doubled, so a
\* reader applying backslash escapes never meets a bare double quote.
C5_Escaped ==
    op = "clean_field" =>
        /\ NoBareQuote(ret_field)
        /\ Count(DQ, ret_field) = Count(DQ, arg_field)
        /\ Count(BS, ret_field) = 2 * Count(BS, arg_field) + Count(DQ, arg_field)

\* C5 witness: a field holding a backslash and a double quote was cleaned
C5_Witness ==
    /\ op = "clean_field"
    /\ Count(BS, arg_field) > 0
    /\ Count(DQ, arg_field) > 0
    /\ Count(BS, ret_field) > Count(BS, arg_field)

\* optional minus sign, then one or more decimal digits
IsIntegerPattern(value) ==
    LET body == Unsigned(AsciiForm(value)) IN
        body # <<>> /\ \A i \in 1..Len(body) : body[i] \in AsciiDigits

\* optional minus sign, then digits with one decimal point among them
IsDecimalPattern(value) ==
    LET body == Unsigned(AsciiForm(value)) IN
        /\ \A i \in 1..Len(body) : body[i] \in AsciiDigits \cup {"."}
        /\ Count(".", body) = 1
        /\ \E i \in 1..Len(body) : body[i] \in AsciiDigits

\* the decimal digits of the same integer, without leading zeros
CanonicalInt(value) ==
    LET ds == StripLeadingZeros(IntPart(value)) IN
        IF ds = <<>> THEN <<"0">>
        ELSE (IF IsNegative(value) THEN <<"-">> ELSE <<>>) \o DigitsToChars(ds)

\* the same decimal value as digits '.' digits: no leading zeros, no trailing
\* zeros, at least one digit on each side of the point
CanonicalDecimal(value) ==
    LET ip == StripLeadingZeros(IntPart(value))
        fp == StripTrailingZeros(FracPart(value))
    IN  (IF IsNegative(value) THEN <<"-">> ELSE <<>>)
            \o DigitsToChars(IF ip = <<>> THEN <<0>> ELSE ip)
            \o <<".">>
            \o DigitsToChars(IF fp = <<>> THEN <<0>> ELSE fp)

\* C6: a field matching the integer pattern comes back as the canonical
\* decimal string of the same integer, a field matching the decimal pattern
\* as one decimal form of the same value, and any other field is cleaned as
\* free text.
C6_Numeric ==
    (op = "clean_field" /\ arg_field # NoneField /\ strip(arg_field) # <<>>) =>
        LET value == strip(arg_field) IN
            /\ IsIntegerPattern(value) => ret_field = CanonicalInt(value)
            /\ IsDecimalPattern(value) => ret_field = CanonicalDecimal(value)
            /\ (~IsIntegerPattern(value) /\ ~IsDecimalPattern(value))
                   => ret_field = invalid_chars_sub(escape(value))

\* C7: when cleaning a field of the row raises, process_row returns a row of
\* the expected width whose fields are all empty.
C7_EmptyRowOnError ==
    (/\ op = "process_row"
     /\ arg_row.iterable
     /\ \E i \in 1..Len(arg_row.fields) : field_raises(arg_row.fields[i]))
        => ret_row = empty_row(arg_n)

----------------------------------------------------------------------------
(* Properties of preprocess_csv *)

\* the record cannot be read, or cleaning one of its fields raises
Malformed(rec) ==
    rec.fault \/ \E i \in 1..Len(rec.fields) : field_raises(rec.fields[i])

\* a record that is read, not empty and cleaned without an error
Good(rec) == ~Malformed(rec) /\ any(rec.fields)

\* the reader has just delivered a record to the loop body
RowTaken == cpc = "loop" /\ pos' = pos + 1

\* what the loop body does with a row it does not skip
RowBuffered(fields) ==
    LET row == process_row(AsRow(fields), expected_columns) IN
        /\ processed' = processed + 1
        /\ \/ chunk' = Append(chunk, row)
           \/ chunk' = <<>> /\ temp_rows' = temp_rows \o Append(chunk, row)

\* C8: with exactly one malformed row and at least one good row (and no
\* fault of the disk), preprocess_csv completes, writes every good row and
\* replaces the input file.
C8_OneBadRowSurvives ==
    (/\ cpc \in {"returned", "raised"}
     /\ Cardinality({i \in 1..Len(file) : Malformed(file[i])}) = 1
     /\ \E i \in 1..Len(file) : Good(file[i])
     /\ write_faults = 0
     /\ error # "RuntimeError: Insufficient disk space")
        => /\ cpc = "returned"
           /\ replaced
           /\ \A i \in 1..Len(file) :
                  Good(file[i]) =>
                      \E j \in 1..Len(temp_rows) :
                          temp_rows[j] = process_row(AsRow(file[i].fields),
                                                     expected_columns)

\* C9 as stated: a row whose cleaned fields are all empty is neither written
\* nor counted, and every other row is processed and written.
C9_CleanedEmptySkipped ==
    [][RowTaken =>
         LET fields  == file[pos'].fields
             cleaned == [i \in 1..Len(fields) |-> clean_field(fields[i])]
         IN  IF ~any(cleaned) THEN UNCHANGED <<chunk, processed, temp_rows>>
             ELSE RowBuffered(fields)]_vars

\* C9 as amended: a row the reader delivers is skipped (not buffered, not
\* written, not counted) exactly when every field as read is the empty
\* string or the row has no field; every other row, also one whose fields
\* are all whitespace, is processed by process_row, buffered for writing and
\* counted.
C9_RawEmptySkipped ==
    [][RowTaken =>
         LET fields == file[pos'].fields
         IN  IF ~any(fields) THEN UNCHANGED <<chunk, processed, temp_rows>>
             ELSE RowBuffered(fields)]_vars

\* C9 witness: a file with a whitespace-only row and an empty row was
\* preprocessed; the first was written as empty fields and counted, the
\* second was not
C9_Witness ==
    /\ cpc = "returned"
    /\ \E i \in 1..Len(file) :
           /\ any(file[i].fields)
           /\ \A k \in 1..Len(file[i].fields) : clean_field(file[i].fields[k]) = <<>>
    /\ \E i \in 1..Len(file) : file[i].fields # <<>> /\ ~any(file[i].fields)
    /\ processed = Cardinality({i \in 1..Len(file) : any(file[i].fields)})
    /\ Len(temp_rows) = processed

----------------------------------------------------------------------------
(* Properties of main *)

\* C10: a load whose submission fails a number of times within the retry
\* budget (MaxStoreFailures) and then succeeds ends succeeded, with that
\* number of retries and every row of the file committed (here the
\* citations load, in a run where the store fails no other query and no
\* batch).
C10_RetryBudget ==
    (/\ mpc = "exit"
     /\ program = "client"
     /\ stage_status[2] # "not_run"
     /\ batch_faults = 0
     /\ store_failures > 0 => caught = "citations")
        => /\ stage_status[2] = "done"
           /\ attempts[2] - 1 = store_failures
           /\ get_node_count(nodes, "Citation") = FileRows

----------------------------------------------------------------------------
(* Properties of the loaders and of main *)

\* C11: a load job some of whose batches failed is not reported to main as
\* a job with none: when a stage's method has returned and its stage is
\* done, the query it ran had no failed batch.
C11_FailedBatchesReported ==
    \A i \in DOMAIN stage_status :
        (stage_status[i] = "done" /\ last.loader = LoaderOf(Stages[i]))
            => last.failed = 0

\* the count differs from the tally by more than one per cent of the tally
Diverges(count, tally) ==
    LET diff == IF count >= tally THEN count - tally ELSE tally - count
    IN  100 * diff > tally

\* C12: a load job whose post-load count diverges from the records the job
\* itself committed does not end as a success: when a loader method has
\* returned normally, every count it took is within the threshold of what
\* the query before the count committed.
C12_VerificationMismatchFatal ==
    last.outcome = "returned"
        => \A i \in 1..Len(last.checks) :
               ~Diverges(last.checks[i].count, last.checks[i].created)

\* the nodes or relationships of the kinds a loader method creates
ItemsOf(ns, rs, loader) ==
    IF loader \in FileLoaders
    THEN SumCounts([l \in NodeLabels |-> get_node_count(ns, l)],
                   {RowLabel(loader, r) : r \in Rows})
    ELSE IF loader = "create_relationships"
    THEN get_relationship_count(rs, "None")
    ELSE 0

\* the loaders of client.py the claim names
PipelineLoaders == {"load_citations", "load_sentences", "load_entities",
                    "load_predications", "create_relationships"}

\* C13: resubmission is idempotent: when a loader of client.py that has
\* just run without a failure is run again on the same input (again without
\* a failure), the store holds as many items of its kind after the second
\* run as after the first.
C13_ResubmissionIdempotent ==
    [][(/\ program = "client"
        /\ last.loader \in PipelineLoaders
        /\ last.outcome = "returned"
        /\ last.failed = 0
        /\ ItemsOf(nodes, rels, last.loader) > 0
        /\ last'.loader = last.loader
        /\ load_calls' = load_calls + 1
        /\ last'.outcome = "returned"
        /\ batch_faults' = batch_faults)
           => ItemsOf(nodes', rels', last.loader)
                  = ItemsOf(nodes, rels, last.loader)]_vars

\* the order of the stages the orchestrator is to keep
FixedOrder == <<"constraints", "citations", "sentences", "entities",
                "predications", "relationships">>

Rank(stage) == CHOOSE k \in 1..Len(FixedOrder) : FixedOrder[k] = stage

Terminal(status) == status \in {"done", "failed"}

\* stage i of Stages starts in this step
Starts(i) == stage_status[i] # "running" /\ stage_status'[i] = "running"

\* C14: in every run of client.py's main, for every choice of flags, when a
\* stage starts every selected stage before it in the order constraints,
\* citations, sentences, entities, predications, relationships has reached
\* a terminal state, no unselected stage before it has run, and no stage
\* after it has started; so the relationships stage never starts before
\* every selected node-loading stage is terminal.
C14_StageOrder ==
    [][program = "client" =>
         \A i \in DOMAIN stage_status :
             Starts(i) =>
                 \A j \in DOMAIN stage_status :
                     /\ Rank(Stages[j]) < Rank(Stages[i]) =>
                            IF selected(args, Stages[j])
                            THEN Terminal(stage_status[j])
                            ELSE stage_status[j] = "not_run"
                     /\ Rank(Stages[j]) > Rank(Stages[i]) =>
                            stage_status[j] = "not_run"]_vars

\* C14 witness: the relationships stage is running after a selected
\* node-loading stage completed and an unselected one was passed over
C14_Witness ==
    /\ program = "client"
    /\ mpc = "try"
    /\ \E i \in DOMAIN stage_status :
           /\ Stages[i] = "relationships"
           /\ stage_status[i] = "running"
    /\ \E j \in DOMAIN stage_status :
           /\ Stages[j] \in {"citations", "sentences", "entities", "predications"}
           /\ stage_status[j] = "done"
    /\ \E j \in DOMAIN stage_status :
           /\ Stages[j] \in {"citations", "sentences", "entities", "predications"}
           /\ ~selected(args, Stages[j])
           /\ stage_status[j] = "not_run"

\* C15: when a selected stage fails, the run is marked failed (main logs the
\* error of that stage), no stage starts afterwards and the store is not
\* written again; a stage that completed stays completed, is not run again,
\* and nothing it wrote is removed.
C15_FailedStageStops ==
    [][\A j \in DOMAIN stage_status :
           /\ stage_status'[j] = "failed" => caught' = Stages[j]
           /\ stage_status[j] = "failed" =>
                  /\ \A i \in DOMAIN stage_status : ~Starts(i)
                  /\ stage_status' = stage_status
                  /\ nodes' = nodes
                  /\ rels' = rels
           /\ stage_status[j] = "done" =>
                  /\ stage_status'[j] = "done"
                  /\ attempts'[j] = attempts[j]
                  /\ \A l \in NodeLabels, k \in StoreKeys :
                         nodes'[l][k] >= nodes[l][k]
                  /\ \A t \in RelTypes, k \in StoreKeys :
                         rels'[t][k] >= rels[t][k]]_vars

\* C15 witness: main has ended after a stage failed; a stage before it had
\* completed and a selected stage after it was never started
C15_Witness ==
    /\ mpc = "exit"
    /\ \E i, j, k \in DOMAIN stage_status :
           /\ i < j
           /\ j < k
           /\ stage_status[i] = "done"
           /\ attempts[i] = 1
           /\ stage_status[j] = "failed"
           /\ caught = Stages[j]
           /\ selected(args, Stages[k])
           /\ stage_status[k] = "not_run"

\* C16: a run in which a stage failed ends with a non-zero exit status, and
\* exit status zero is produced only when every selected stage succeeded.
C16_NonZeroExitOnFailure ==
    mpc = "exit" =>
        /\ (\E j \in DOMAIN stage_status : stage_status[j] = "failed")
               => exit_status # 0
        /\ (exit_status = 0 /\ argv = "flags") =>
               \A j \in DOMAIN stage_status :
                   selected(args, Stages[j]) => stage_status[j] = "done"

\* C17: on every exit path of the program (normal completion, a failed
\* stage, a failure while the connector is constructed, an exit from
\* argument parsing after the connector was created) the driver the loader
\* opened has been closed when the process ends.
C17_DriverReleased == mpc = "exit" => ~driver_open

\* the key column of entity.gz (sentence_id) and of the file it depends on,
\* sentences.csv
DependentIds == {RowKey("load_entities", r) : r \in Rows}

DependencyIds == {RowKey("load_sentences", r) : r \in Rows}

\* the identifiers the log reports as missing; the loaders and main log
\* counts only
ReportedMissing ==
    UNION {IF logged[i].kind = "missing" THEN logged[i].ids ELSE {} :
               i \in 1..Len(logged)}

\* C18: for entity.gz depending on sentences.csv, by the time the entities
\* are loaded the identifiers reported as missing are exactly those of
\* entity.gz's key column that are not in sentences.csv's key column, and a
\* non-empty missing set does not keep the load from running.
C18_MissingIsDifference ==
    \A j \in DOMAIN stage_status :
        (/\ program = "client"
         /\ Stages[j] = "entities"
         /\ selected(args, "entities")
         /\ stage_status[j] = "done")
            => ReportedMissing = DependentIds \ DependencyIds

\* C19: after a query that created k > 0 items of a kind in a store that
\* held none of that kind, the count the loader takes next is k: the count
\* selects the label or relationship type the query creates.
C19_CountSelectsCreatedKind ==
    \A i \in 1..Len(last.checks) :
        (last.checks[i].before = 0 /\ last.checks[i].created > 0)
            => last.checks[i].count = last.checks[i].created

----------------------------------------------------------------------------
(* Properties of the chunk buffer of preprocess_csv *)

\* C20: during preprocess_csv the chunk buffer never holds more than
\* chunk_size rows (also right after a row is appended, before the chunk is
\* written), no write puts more than chunk_size rows in the output, and the
\* buffer is empty once the input is exhausted and the final write is done.
C20_ChunkBounded ==
    [][/\ Len(chunk') <= chunk_size
       /\ processed' = processed + 1 => Len(chunk) + 1 <= chunk_size
       /\ Len(temp_rows') - Len(temp_rows) <= chunk_size
       /\ cpc' \in {"verify", "returned"} => Len(chunk') = 0]_vars

\* the sanitized form of the rows of the first k records that line 149 does
\* not skip, in input order
RECURSIVE SanitizedRows(_, _, _)
SanitizedRows(records, k, n_columns) ==
    IF k = 0 THEN <<>>
    ELSE IF is_skipped(records[k].fields)
         THEN SanitizedRows(records, k - 1, n_columns)
         ELSE Append(SanitizedRows(records, k - 1, n_columns),
                     process_row(AsRow(records[k].fields), n_columns))

\* C21: after preprocess_csv has returned, the output file holds exactly the
\* sanitized form of every non-skipped input row, each once and in input
\* order, and the number of rows written equals the processed counter.
C21_OutputIsSanitizedInput ==
    cpc = "returned"
        => /\ temp_rows = SanitizedRows(file, Len(file), expected_columns)
           /\ Len(temp_rows) = processed

\* C22: preprocess_csv is all-or-nothing on the input file: when it has
\* raised, the input file is not replaced and the '.tmp' file does not
\* remain; the input file is replaced only after every row was read and
\* written and at least one row was processed.
C22_AllOrNothing ==
    /\ cpc = "raised" => ~replaced /\ ~temp_exists
    /\ replaced =>
           /\ processed >= 1
           /\ pos = Len(file)
           /\ \A i \in 1..Len(file) :
                  ~is_skipped(file[i].fields) =>
                      \E j \in 1..Len(temp_rows) :
                          temp_rows[j] = process_row(AsRow(file[i].fields),
                                                     expected_columns)

----------------------------------------------------------------------------
(* Properties of the sanitizer applied to its own output *)

\* C23: sanitization is idempotent: cleaning a cleaned field returns it
\* unchanged, and processing a processed row to the same width returns it
\* unchanged.
C23_Idempotent ==
    /\ op = "clean_field" => clean_field(ret_field) = ret_field
    /\ op = "process_row" => process_row(AsRow(ret_row), arg_n) = ret_row

----------------------------------------------------------------------------
(* Further properties of preprocess_csv *)

\* C24: for an input file with at least one non-empty row, the expected
\* column count derived from the first line is never zero, and every row
\* written has at least one column and keeps the sanitized first field of
\* its input row.
C24_ColumnsNeverZero ==
    (/\ cpc \in {"loop", "verify", "returned"}
     /\ \E i \in 1..Len(file) : any(file[i].fields))
        => /\ expected_columns # 0
           /\ \A j \in 1..Len(temp_rows) :
                  IF Len(temp_rows[j]) = 0 THEN FALSE
                  ELSE \E i \in 1..Len(file) :
                           /\ any(file[i].fields)
                           /\ temp_rows[j][1] = clean_field(file[i].fields[1])

----------------------------------------------------------------------------
(* Further properties of the loaders and of main *)

\* C25: in every load operation of client.py the count is taken after the
\* load query before it has run to completion: the logged count is the count
\* of the store that holds every record the load wrote.
C25_CountAfterLoad ==
    (program = "client" /\ last.loader # "none")
        => \A i \in 1..Len(last.checks) :
               last.checks[i].count = last.checks[i].complete

\* the stage flags of client.py
StageFlags == {StageOrder[i] : i \in 1..Len(StageOrder)}

\* the stages the command line asks for: all six when no stage flag is given
\* or --all is given, otherwise those whose flags are given
Chosen(stage) ==
    IF args \cap StageFlags = {} \/ "all" \in args THEN TRUE ELSE stage \in args

\* the index of the stage whose exception main caught; past the last stage
\* when no stage raised
FailedAt ==
    IF \E i \in 1..Len(Stages) : Stages[i] = caught
    THEN CHOOSE i \in 1..Len(Stages) : Stages[i] = caught
    ELSE Len(Stages) + 1

\* C26: main of client.py starts no stage the command line does not ask for,
\* starts no stage twice, and when it has gone through its if statements
\* (up to the stage that raised, if one did) it has run exactly the stages
\* asked for: all six with no stage flag or with --all, otherwise those
\* whose flags were given.
C26_StageSelection ==
    program = "client" =>
        /\ \A i \in DOMAIN stage_status :
               /\ attempts[i] <= 1
               /\ stage_status[i] # "not_run" => Chosen(Stages[i])
        /\ (mpc = "exit" /\ argv = "flags" /\ exit_status = 0) =>
               \A i \in 1..Len(Stages) :
                   i <= FailedAt =>
                       /\ Chosen(Stages[i]) => attempts[i] = 1
                       /\ (Chosen(Stages[i]) /\ i < FailedAt)
                              => stage_status[i] = "done"

\* C26 witness: main was run with --sentences --relationships and ended
\* having run those two stages and no other
C26_Witness ==
    /\ program = "client"
    /\ mpc = "exit"
    /\ args = {"sentences", "relationships"}
    /\ caught = "none"
    /\ \A i \in 1..Len(Stages) :
           stage_status[i] = (IF Stages[i] \in args THEN "done" ELSE "not_run")
    /\ \A i \in 1..Len(Stages) :
           attempts[i] = (IF Stages[i] \in args THEN 1 ELSE 0)

----------------------------------------------------------------------------
(* Properties of the data preparation scripts *)

RECURSIVE TopLevelTuples(_, _, _, _)
\* the text between each "(" met outside every parenthesis and the ")" that
\* closes it, scanning part from index i with `depth` parentheses open, the
\* outermost opened at index opened
TopLevelTuples(part, i, depth, opened) ==
    IF i >= Len(part) THEN <<>>
    ELSE IF part[i + 1] = "("
    THEN TopLevelTuples(part, i + 1, depth + 1, IF depth = 0 THEN i ELSE opened)
    ELSE IF part[i + 1] = ")" /\ depth = 1
    THEN <<Slice(part, opened + 1, i)>> \o TopLevelTuples(part, i + 1, 0, -1)
    ELSE IF part[i + 1] = ")" /\ depth > 1
    THEN TopLevelTuples(part, i + 1, depth - 1, opened)
    ELSE TopLevelTuples(part, i + 1, depth, opened)

\* C27: process_sql_to_csv extracts every top-level parenthesized tuple of an
\* INSERT line as exactly one CSV row, also when a value holds nested
\* parentheses: a tuple is emitted only at the ")" that closes the "(" that
\* opened it, and the rows written for the line are as many as its
\* top-level tuples.
C27_TopLevelTuples ==
    (qpc = "done" /\ line.insert)
        => /\ scan.matches = TopLevelTuples(values_part, 0, 0, -1)
           /\ Len(csv_rows) = Len(TopLevelTuples(values_part, 0, 0, -1))

\* the data rows of the input file of merge_duplicates
DataRows == Tail(merge_input)

\* the data rows with at least three columns
Keyed == {i \in 1..Len(DataRows) : Len(DataRows[i]) >= 3}

\* the distinct values of the first three columns
Keys == {SubSeq(DataRows[i], 1, 3) : i \in Keyed}

\* the rows of the output file after its header row
OutRows == Tail(merge_output)

\* the number an output row carries in its last column
FrequencyOf(row) ==
    CHOOSE n \in 0..(Len(DataRows) + 1) :
        \/ str_int(n) = row[Len(row)]
        \/ n = Len(DataRows) + 1 /\ \A m \in 0..Len(DataRows) : str_int(m) # row[Len(row)]

\* C28: merge_duplicates writes exactly one output data row per distinct
\* value of the first three columns among the input data rows, the
\* frequency of each output row is the number of input data rows with that
\* key, and the frequencies add up to the number of input data rows that
\* have at least three columns.
C28_OneRowPerKey ==
    gpc = "returned" =>
        /\ Len(OutRows) = Cardinality(Keys)
        /\ \A k \in Keys :
               Cardinality({j \in 1..Len(OutRows) :
                                SubSeq(OutRows[j], 1, Len(OutRows[j]) - 1) = k}) = 1
        /\ \A j \in 1..Len(OutRows) :
               /\ Len(OutRows[j]) = 4
               /\ FrequencyOf(OutRows[j])
                      = Cardinality({i \in Keyed :
                            SubSeq(DataRows[i], 1, 3) = SubSeq(OutRows[j], 1, 3)})
        /\ SumCounts([j \in 1..Len(OutRows) |-> FrequencyOf(OutRows[j])],
                     1..Len(OutRows)) = Cardinality(Keyed)

\* C28 witness: a file of three data rows, two with the same key (one of
\* them of four columns) and one of fewer than three columns, was merged
\* into one row with frequency 2
C28_Witness ==
    /\ gpc = "returned"
    /\ Len(DataRows) = 3
    /\ Cardinality(Keyed) = 2
    /\ Cardinality(Keys) = 1
    /\ \E i \in Keyed : Len(DataRows[i]) = 4
    /\ Len(OutRows) = 1
    /\ FrequencyOf(OutRows[1]) = 2

\* the first k elements of s, all of s when it has fewer
FirstLines(s, k) == SubSeq(s, 1, IF k < Len(s) THEN k ELSE Len(s))

\* C29: after sample_files completes, for every '.csv' file f of source_dir
\* there is a file of the same name in dest_dir holding exactly the first
\* min(n_lines, number of lines of f) lines of f, in order, whatever the
\* number of workers and the order in which they take and finish files; and
\* no destination file is written by two workers.
C29_SampledFiles ==
    /\ kpc = "returned" =>
           \A f \in {g \in FileNames : endswith_csv(g)} :
               /\ fs[dest_path][f].exists
               /\ fs[dest_path][f].lines = FirstLines(source_files[f].lines, n_lines)
    /\ \A f \in DOMAIN writers : Cardinality(writers[f]) <= 1

\* C30: after every completed call of download_all_ontologies, on any
\* sequence of calls on the same downloader object, successful_downloads +
\* failed_downloads = total_ontologies and failed_downloads = the length of
\* failed_ontologies; a failed download does not stop the remaining
\* ontologies from being attempted, and each is attempted once.
C30_StatsAddUp ==
    (dpc = "ready" /\ calls >= 1) =>
        /\ stats.successful_downloads + stats.failed_downloads
               = stats.total_ontologies
        /\ stats.failed_downloads = Len(stats.failed_ontologies)
        /\ attempted = all_ontologies

====
